---- MODULE Spec2Model ----
(***************************************************************************)
(* Model of the mystapp Playwright suite: the bounded login pool of the    *)
(* stress spec (login.stress.spec.ts) and of auth.setup.ts, the percentile *)
(* and SLO summary that follows it, the credential resolver                *)
(* requireMystappUsers and mystappLogin of helpers.ts, the date filler and *)
(* the grid waits and popup race of the invoices and service vehicles      *)
(* specs, the network capture of netlog.ts, the timed service vehicles     *)
(* scenario and the perf aggregator mystapp-perf-summary.mjs.              *)
(***************************************************************************)
EXTENDS Integers, Sequences, FiniteSets, TLC

\* ------------------------------------------------------------------ bounds
MaxUsers == 3
MaxConcurrency == 2
MaxDuration == 1
MaxLen == 3
MaxValue == 3
MaxNames == 3
MaxCount == 3
MaxPolls == 1
MaxPasswordInputs == 2
MaxGridPolls == 3
MaxRows == 2
MaxCols == 2
MaxNesting == 8
MaxRequests == 2
MaxFiles == 3

\* ------------------------------------------------------- JavaScript values
\* A JS value is a record tagged with its kind, so that `undefined`, NaN and
\* finite numbers can be told apart the way `typeof`, `??` and
\* Number.isFinite tell them apart.
Undefined == [t |-> "undefined"]
NaN == [t |-> "nan"]
Num(v) == [t |-> "number", v |-> v]

\* typeof x === 'number' (NaN is a number for typeof)
TypeofNumber(x) == x.t \in {"number", "nan", "inf"}

\* Math.max(a, b): NaN if either argument is NaN
MathMax(a, b) ==
  IF a.t = "nan" \/ b.t = "nan" THEN NaN
  ELSE IF a.v >= b.v THEN a ELSE b

\* Array.from({ length }): ToLength maps NaN and negatives to 0
ArrayFromLength(len) ==
  IF len.t = "nan" THEN 0 ELSE IF len.v < 0 THEN 0 ELSE len.v

WorkerCountPlusOne(c) == ArrayFromLength(MathMax(Num(1), c)) + 1

\* Math.max(1, CONCURRENCY) workers are started
WorkerCount(c) == ArrayFromLength(MathMax(Num(1), c))

Durations == 1..MaxDuration

\* What mystappLogin reports about the optional API wait: both absent, or both
\* numbers (helpers.ts sets apiMs and apiStatus in the same try block).
ApiMetrics ==
  { [apiMs |-> Undefined, apiStatus |-> Undefined],
    [apiMs |-> Num(1), apiStatus |-> Num(200)] }

\* -------------------------------------------------------------- variables
VARIABLES
  mode,         \* "stress" (login.stress.spec.ts) or "setup" (auth.setup.ts);
                \* also "invoices", "serviceVehicles" where users are resolved
  nUsers,       \* users.length
  concurrency,  \* CONCURRENCY = Number(env ?? default)
  env,          \* process.env: the SLO threshold variables
  phase,        \* "start" | "pool" | "done": position of the test body
  next,         \* the shared cursor
  pc,           \* per worker: the await it is suspended at
  cur,          \* per worker: `current`
  ctxOf,        \* per worker: the context of its attempt (0: none)
  held,         \* per worker: metrics / duration kept across awaits
  timings,      \* stress: number[]
  apiTimings,   \* stress: number[]
  apiStatuses,  \* stress: number[]
  results,      \* setup: Array<{index, loginMs}>
  stateFiles,   \* setup: 1-based indices whose storageState was written
  openCtx,      \* contexts opened and not yet closed
  ctxCount,     \* number of contexts created so far (ids are 1..ctxCount)
  ctxUse,       \* history: <<context id, index>> of every use of a context
  claimLog,     \* history: <<worker, current>> of every read of the cursor
  doneOrder,    \* history: indices in the order their result was appended
  outcome,      \* "running" | "passed" | "skipped" | "fail_*"
  stats,        \* what the summary computed
  credEnv,      \* process.env: the credential variables
  localCfg,     \* what readMystappLocalConfig() returns
  count,        \* the argument of requireMystappUsers
  csvNames,     \* history: the names MYSTAPP_USERS was written from
  users,        \* the result of requireMystappUsers: a list or an error
  loginEnv,     \* process.env: what mystappLogin reads
  lpc,          \* mystappLogin: the await the call is suspended at
  url,          \* page.url() as last read
  polls,        \* rounds made by the bounded wait in progress
  trace,        \* history: the steps of the login completed so far
  probe,        \* the last firstVisibleLocator call: candidates, checks, result
  fields,       \* passwordInputsCount, username, password, submit
  apiWait,      \* apiWaitPromise: "none" | "pending" | "captured" | "failed"
  metrics,      \* apiMs, apiStatus, apiUrl
  lresult,      \* what mystappLogin returned or threw
  dateEnv,      \* process.env.MYSTAPP_DATE_FORMAT
  rawDate,      \* fillDateInput: the rawDate argument
  inputType,    \* the input's `type` as evaluated, "undefined" if that failed
  dpc,          \* fillDateInput: the attempt the call is at
  dvalue,       \* fillDateInput: `value`, the string written and expected back
  attemptErrors, \* fillDateInput: attemptErrors
  attempts,     \* history: tag, outcome and read-back of every attempt made
  dresult,      \* what fillDateInput returned or threw
  grid,         \* a grid wait: routine, polls, sawEmpty, observations, result
  popupRace,    \* the click on the resolved cell and the popup waits around it
  redaction,    \* netlog.ts: a header map or a body and what is captured of it
  netlog,       \* installNetworkCapture: listeners, nextId, entries, file
  perf,         \* mystapp-perf-summary.mjs: the files found, the rows, the exit
  scenario      \* the service vehicles test: step, timings, file, outcome

poolVars ==
  <<next, pc, cur, ctxOf, held, timings, apiTimings, apiStatuses, results,
    stateFiles, openCtx, ctxCount, ctxUse, claimLog, doneOrder>>

runVars == <<mode, nUsers, concurrency, env, phase, poolVars, outcome, stats>>

credVars == <<credEnv, localCfg, count, csvNames, users>>

loginVars ==
  <<loginEnv, lpc, url, polls, trace, probe, fields, apiWait, metrics, lresult>>

dateVars ==
  <<dateEnv, rawDate, inputType, dpc, dvalue, attemptErrors, attempts, dresult>>

\* One record each for the grid helpers, the recorder and the scripts.
auxVars == <<grid, popupRace, redaction, netlog, perf, scenario>>

vars == <<runVars, credVars, loginVars, dateVars, auxVars>>

\* what the steps of the login pool and of its summary leave alone
notRun == <<credVars, loginVars, dateVars, auxVars>>

\* what the credential resolver leaves alone
notCred == <<runVars, loginVars, dateVars, auxVars>>

\* what a call of mystappLogin leaves alone
notLogin == <<runVars, credVars, dateVars, auxVars>>

\* what a call of fillDateInput leaves alone
notDate == <<runVars, credVars, loginVars, auxVars>>

coreVars == <<runVars, credVars, loginVars, dateVars>>

notGrid == <<coreVars, popupRace, redaction, netlog, perf, scenario>>

notPopupRace == <<coreVars, grid, redaction, netlog, perf, scenario>>

notRedaction == <<coreVars, grid, popupRace, netlog, perf, scenario>>

notNetlog == <<coreVars, grid, popupRace, redaction, perf, scenario>>

notPerf == <<coreVars, grid, popupRace, redaction, netlog, scenario>>

notScenario == <<coreVars, grid, popupRace, redaction, netlog, perf>>

Workers == 1..WorkerCount(concurrency)

NoStats == [computed |-> FALSE]

\* ---------------------------------------------------------- the worker pool
BumpCursorTwice(n) == n + 2

\* `next += 1`
BumpCursor(n) == n + 1

ExhaustedOffByOne(current, n) == current > n

ExhaustedEarly(current, n) == current + 1 >= n

\* `if (current >= users.length) return;`
Exhausted(current, n) == current >= n

\* The synchronous head of the worker loop: read the cursor, bump it, and
\* either return or start the attempt (browser.newContext() is called and
\* awaited). ps is the record of the pool variables it touches.
WorkerClaim(ps, w, n) ==
  LET current == ps.next IN
  [ps EXCEPT !.next = BumpCursor(ps.next),
             !.cur[w] = current,
             !.claimLog = Append(@, <<w, current>>),
             !.pc[w] = IF Exhausted(current, n) THEN "returned" ELSE "newContext"]

RECURSIVE LaunchWorkers(_, _, _, _)
\* Array.from({ length }, () => worker()): the workers are called one after
\* the other, each running up to its first await.
LaunchWorkers(ps, w, length, n) ==
  IF w > length THEN ps
  ELSE LaunchWorkers(WorkerClaim(ps, w, n), w + 1, length, n)

PoolRecord == [next |-> next, pc |-> pc, cur |-> cur, claimLog |-> claimLog]

SetPool(ps) ==
  /\ next' = ps.next
  /\ pc' = ps.pc
  /\ cur' = ps.cur
  /\ claimLog' = ps.claimLog

\* The test body up to `await Promise.all(...)`.
StartPool ==
  /\ phase = "start"
  /\ phase' = "pool"
  /\ SetPool(LaunchWorkers(PoolRecord, 1, WorkerCount(concurrency), nUsers))
  /\ UNCHANGED <<notRun, mode, nUsers, concurrency, env, ctxOf, held, timings, apiTimings,
                 apiStatuses, results, stateFiles, openCtx, ctxCount, ctxUse,
                 doneOrder, outcome, stats>>

\* The id of the context browser.newContext() returns: a new one every call.
NewContextId(created) == created + 1

\* `await browser.newContext()` resolves; context.newPage() is called.
ContextCreated(w) ==
  /\ phase = "pool"
  /\ pc[w] = "newContext"
  /\ LET id == NewContextId(ctxCount) IN
       /\ ctxCount' = IF id > ctxCount THEN id ELSE ctxCount
       /\ ctxOf' = [ctxOf EXCEPT ![w] = id]
       /\ openCtx' = openCtx \cup {id}
       /\ ctxUse' = ctxUse \cup {<<id, cur[w]>>}
  /\ pc' = [pc EXCEPT ![w] = "newPage"]
  /\ UNCHANGED <<notRun, mode, nUsers, concurrency, env, phase, next, cur, held, timings,
                 apiTimings, apiStatuses, results, stateFiles, claimLog,
                 doneOrder, outcome, stats>>

\* `await context.newPage()` resolves. The stress worker calls mystappLogin,
\* the setup worker first awaits import('./helpers').
PageCreated(w) ==
  /\ phase = "pool"
  /\ pc[w] = "newPage"
  /\ pc' = [pc EXCEPT ![w] = IF mode = "stress" THEN "login" ELSE "import"]
  /\ UNCHANGED <<notRun, mode, nUsers, concurrency, env, phase, next, cur, ctxOf, held,
                 timings, apiTimings, apiStatuses, results, stateFiles,
                 openCtx, ctxCount, ctxUse, claimLog, doneOrder, outcome, stats>>

\* setup only: `await import('./helpers')` resolves; mystappLogin is called.
HelpersImported(w) ==
  /\ phase = "pool"
  /\ pc[w] = "import"
  /\ pc' = [pc EXCEPT ![w] = "login"]
  /\ UNCHANGED <<notRun, mode, nUsers, concurrency, env, phase, next, cur, ctxOf, held,
                 timings, apiTimings, apiStatuses, results, stateFiles,
                 openCtx, ctxCount, ctxUse, claimLog, doneOrder, outcome, stats>>

\* apiTimings.push / apiStatuses.push, each guarded by typeof === 'number'
PushIfNumber(arr, x) == IF TypeofNumber(x) THEN Append(arr, x.v) ELSE arr

\* `await mystappLogin(page, user)` resolves with metrics.
\* stress: the api metrics are pushed and context.close() is called.
\* setup: page.close() is called; metrics.totalMs is kept for results.push
\*        (apiMs and apiStatus are copied into the result and never read
\*        again, so the result record carries index and loginMs only).
LoginReturns(w) ==
  /\ phase = "pool"
  /\ pc[w] = "login"
  /\ \E api \in ApiMetrics, total \in Durations :
       IF mode = "stress"
         THEN /\ apiTimings' = PushIfNumber(apiTimings, api.apiMs)
              /\ apiStatuses' = PushIfNumber(apiStatuses, api.apiStatus)
              /\ pc' = [pc EXCEPT ![w] = "close"]
              /\ held' = held
         ELSE /\ held' = [held EXCEPT ![w] = total]
              /\ pc' = [pc EXCEPT ![w] = "pageClose"]
              /\ UNCHANGED <<apiTimings, apiStatuses>>
  /\ ctxUse' = ctxUse \cup {<<ctxOf[w], cur[w]>>}
  /\ UNCHANGED <<notRun, mode, nUsers, concurrency, env, phase, next, cur, ctxOf, timings,
                 results, stateFiles, openCtx, ctxCount, claimLog, doneOrder,
                 outcome, stats>>

\* setup only: `await page.close()` resolves; context.storageState is called.
PageClosed(w) ==
  /\ phase = "pool"
  /\ pc[w] = "pageClose"
  /\ pc' = [pc EXCEPT ![w] = "storageState"]
  /\ UNCHANGED <<notRun, mode, nUsers, concurrency, env, phase, next, cur, ctxOf, held,
                 timings, apiTimings, apiStatuses, results, stateFiles,
                 openCtx, ctxCount, ctxUse, claimLog, doneOrder, outcome, stats>>

\* setup only: `await context.storageState({ path })` resolves, the file of
\* index1Based = current + 1 is written; context.close() is called.
StorageStateSaved(w) ==
  /\ phase = "pool"
  /\ pc[w] = "storageState"
  /\ stateFiles' = stateFiles \cup {cur[w] + 1}
  /\ ctxUse' = ctxUse \cup {<<ctxOf[w], cur[w]>>}
  /\ pc' = [pc EXCEPT ![w] = "close"]
  /\ UNCHANGED <<notRun, mode, nUsers, concurrency, env, phase, next, cur, ctxOf, held,
                 timings, apiTimings, apiStatuses, results, openCtx, ctxCount,
                 claimLog, doneOrder, outcome, stats>>

\* The result is appended and the loop goes round: the next claim runs in the
\* same synchronous segment as the push.
PushAndClaim(w) ==
  /\ doneOrder' = Append(doneOrder, cur[w])
  /\ SetPool(WorkerClaim(PoolRecord, w, nUsers))

\* `await context.close()` resolves.
\* setup: results.push(...) and the loop continues at once.
\* stress: the callback of withDurationMs returns; withDurationMs takes
\*         Date.now() - start, and the worker resumes in a later turn.
ContextClosed(w) ==
  /\ phase = "pool"
  /\ pc[w] = "close"
  /\ openCtx' = openCtx \ {ctxOf[w]}
  /\ ctxOf' = [ctxOf EXCEPT ![w] = 0]
  /\ IF mode = "stress"
       THEN /\ \E d \in Durations : held' = [held EXCEPT ![w] = d]
            /\ pc' = [pc EXCEPT ![w] = "timed"]
            /\ UNCHANGED <<next, cur, claimLog, doneOrder, results>>
       ELSE /\ results' = Append(results,
                 [index |-> cur[w] + 1, loginMs |-> held[w]])
            /\ held' = [held EXCEPT ![w] = 0]
            /\ PushAndClaim(w)
  /\ UNCHANGED <<notRun, mode, nUsers, concurrency, env, phase, timings, apiTimings,
                 apiStatuses, stateFiles, ctxCount, ctxUse, outcome, stats>>

\* stress only: `await withDurationMs(...)` resolves with durationMs;
\* timings.push(durationMs) and the loop continues.
DurationMeasured(w) ==
  /\ phase = "pool"
  /\ pc[w] = "timed"
  /\ timings' = Append(timings, held[w])
  /\ held' = [held EXCEPT ![w] = 0]
  /\ PushAndClaim(w)
  /\ UNCHANGED <<notRun, mode, nUsers, concurrency, env, phase, ctxOf, apiTimings,
                 apiStatuses, results, stateFiles, openCtx, ctxCount, ctxUse,
                 outcome, stats>>

AwaitStates ==
  {"newContext", "newPage", "import", "login", "pageClose", "storageState",
   "close"}

\* An awaited call of the attempt rejects: the worker's promise rejects, so
\* Promise.all rejects and the test body throws at its await (the first
\* rejection decides). Nothing in the worker closes the context.
AttemptThrows(w) ==
  /\ phase = "pool"
  /\ pc[w] \in AwaitStates
  /\ pc' = [pc EXCEPT ![w] = "rejected"]
  /\ outcome' = IF outcome = "running" THEN "fail_pool" ELSE outcome
  /\ UNCHANGED <<notRun, mode, nUsers, concurrency, env, phase, next, cur, ctxOf, held,
                 timings, apiTimings, apiStatuses, results, stateFiles,
                 openCtx, ctxCount, ctxUse, claimLog, doneOrder, stats>>

WorkerStep(w) ==
  \/ ContextCreated(w)
  \/ PageCreated(w)
  \/ HelpersImported(w)
  \/ LoginReturns(w)
  \/ PageClosed(w)
  \/ StorageStateSaved(w)
  \/ ContextClosed(w)
  \/ DurationMeasured(w)
  \/ AttemptThrows(w)

AllReturned == \A w \in Workers : pc[w] = "returned"

\* ------------------------------------------------------------ env strings
\* A string is a sequence of one-character strings; an unset variable is
\* `undefined`.
Str(chars) == [t |-> "string", s |-> chars]

Whitespace == {" "}
Digits == {"0", "1", "2", "3", "4", "5", "6", "7", "8", "9"}

RECURSIVE TrimStart(_)
TrimStart(s) ==
  IF s # << >> /\ Head(s) \in Whitespace THEN TrimStart(Tail(s)) ELSE s

RECURSIVE TrimEnd(_)
TrimEnd(s) ==
  IF s # << >> /\ s[Len(s)] \in Whitespace
    THEN TrimEnd(SubSeq(s, 1, Len(s) - 1))
    ELSE s

\* String.prototype.trim
Trim(s) == TrimEnd(TrimStart(s))

DigitValue(c) ==
  CASE c = "0" -> 0 [] c = "1" -> 1 [] c = "2" -> 2 [] c = "3" -> 3
    [] c = "4" -> 4 [] c = "5" -> 5 [] c = "6" -> 6 [] c = "7" -> 7
    [] c = "8" -> 8 [] c = "9" -> 9

RECURSIVE DecimalValue(_, _)
DecimalValue(s, acc) ==
  IF s = << >> THEN acc
  ELSE DecimalValue(Tail(s), 10 * acc + DigitValue(Head(s)))

AllDigits(s) == s # << >> /\ \A i \in 1..Len(s) : s[i] \in Digits

InfinityLiteral == <<"I", "n", "f", "i", "n", "i", "t", "y">>
Infinity == [t |-> "inf"]

\* Number(string): surrounding whitespace is ignored, the empty string is 0,
\* a decimal integer (optionally signed) is its value, "Infinity" is
\* Infinity, anything else is NaN.
NumberOf(s) ==
  LET body == Trim(s) IN
  IF body = << >> THEN Num(0)
  ELSE IF AllDigits(body) THEN Num(DecimalValue(body, 0))
  ELSE IF Head(body) = "-" /\ AllDigits(Tail(body))
    THEN Num(0 - DecimalValue(Tail(body), 0))
  ELSE IF body = InfinityLiteral THEN Infinity
  ELSE NaN

\* Number.isFinite
IsFinite(x) == x.t = "number"

\* `!raw` for `string | undefined`
Falsy(raw) == raw.t = "undefined" \/ raw.s = << >>

\* mystappMaxLoginMs / mystappMaxP95LoginMs / mystappMaxP99LoginMs: the three
\* readers differ only in the variable they read.
ThresholdFromEnv(raw) ==
  IF Falsy(raw) THEN Undefined
  ELSE LET value == NumberOf(raw.s) IN
       IF IsFinite(value) THEN value ELSE Undefined

mystappMaxLoginMs(e) == ThresholdFromEnv(e.MYSTAPP_MAX_LOGIN_MS)
mystappMaxP95LoginMs(e) == ThresholdFromEnv(e.MYSTAPP_MAX_P95_LOGIN_MS)
mystappMaxP99LoginMs(e) == ThresholdFromEnv(e.MYSTAPP_MAX_P99_LOGIN_MS)

\* The values the threshold variables are drawn from.
ThresholdRaw ==
  { Undefined, Str(<< >>), Str(<<"a", "b", "c">>), Str(InfinityLiteral),
    Str(<<"1">>), Str(<<" ", "2">>), Str(<<"2", "0">>),
    Str(<<"3", "0", "0">>) }

ThresholdEnvs ==
  [MYSTAPP_MAX_LOGIN_MS : ThresholdRaw,
   MYSTAPP_MAX_P95_LOGIN_MS : ThresholdRaw,
   MYSTAPP_MAX_P99_LOGIN_MS : ThresholdRaw]

NoThresholds ==
  [MYSTAPP_MAX_LOGIN_MS |-> Undefined, MYSTAPP_MAX_P95_LOGIN_MS |-> Undefined,
   MYSTAPP_MAX_P99_LOGIN_MS |-> Undefined]

\* The environments a pool run is started under: no SLO threshold, or a
\* maximum of 1 ms.
PoolEnvs ==
  { NoThresholds, [NoThresholds EXCEPT !.MYSTAPP_MAX_LOGIN_MS = Str(<<"1">>)] }

\* ---------------------------------------------------------------- summary
RECURSIVE InsertSorted(_, _)
InsertSorted(sorted, x) ==
  IF sorted = << >> THEN <<x>>
  ELSE IF x < Head(sorted) THEN <<x>> \o sorted
  ELSE <<Head(sorted)>> \o InsertSorted(Tail(sorted), x)

RECURSIVE SortNumbers(_)
\* arr.sort((a, b) => a - b)
SortNumbers(arr) ==
  IF arr = << >> THEN << >>
  ELSE InsertSorted(SortNumbers(SubSeq(arr, 1, Len(arr) - 1)), arr[Len(arr)])

CeilIndexMinusOne(length, pct) == ((length * pct + 99) \div 100) - 1

FloorIndexMinusOne(length, pct) == ((length * pct) \div 100) - 1

\* Math.floor(length * p) for p = pct / 100
FloorIndex(length, pct) == (length * pct) \div 100

\* the aggregator's percentile with the index of the stress spec
percentileFloorIndex(values, pct) ==
  IF Len(values) = 0 THEN Undefined
  ELSE LET sorted == SortNumbers(values)
           idx == FloorIndex(Len(sorted), pct)
           clamped == IF idx > Len(sorted) - 1 THEN Len(sorted) - 1
                      ELSE IF idx < 0 THEN 0 ELSE idx
       IN Num(sorted[clamped + 1])

\* percentile(values, p) of mystapp-perf-summary.mjs, p = pct:
\* Math.ceil((p / 100) * sorted.length) - 1, clamped to [0, length - 1]
percentile(values, pct) ==
  IF Len(values) = 0 THEN Undefined
  ELSE LET sorted == SortNumbers(values)
           idx == ((Len(sorted) * pct + 99) \div 100) - 1
           clamped == IF idx > Len(sorted) - 1 THEN Len(sorted) - 1
                      ELSE IF idx < 0 THEN 0 ELSE idx
       IN Num(sorted[clamped + 1])

\* arr[i] ?? 0 (i is 0-based; out of range reads undefined)
AtOrZero(arr, i) == IF i >= 0 /\ i < Len(arr) THEN arr[i + 1] ELSE 0

\* timings[Math.floor(timings.length * p)] ?? 0
StressPercentile(sorted, pct) == AtOrZero(sorted, FloorIndex(Len(sorted), pct))

\* timings[timings.length - 1] ?? 0
StressMax(sorted) == AtOrZero(sorted, Len(sorted) - 1)

ThresholdFailsNonStrict(observed, allowed) ==
  TypeofNumber(allowed) /\ ~(observed < allowed.v)

\* expect(observed).toBeLessThanOrEqual(allowed), run only when
\* typeof allowed === 'number'; TRUE when the assertion throws.
ThresholdFails(observed, allowed) ==
  TypeofNumber(allowed) /\ ~(observed <= allowed.v)

LengthNotAsserted(arr, n) == TRUE

\* expect(timings).toHaveLength(users.length)
HasLength(arr, n) == Len(arr) = n

\* The stress test body after `await Promise.all(...)`: it is synchronous to
\* its end. The first failing expect throws and ends the test.
StressSummary ==
  /\ mode = "stress"
  /\ phase = "pool"
  /\ outcome = "running"
  /\ AllReturned
  /\ LET sorted == SortNumbers(timings)
           p50 == StressPercentile(sorted, 50)
           p90 == StressPercentile(sorted, 90)
           p99 == StressPercentile(sorted, 99)
           maxAllowed == mystappMaxLoginMs(env)
           p95Allowed == mystappMaxP95LoginMs(env)
           p99Allowed == mystappMaxP99LoginMs(env)
           p95 == StressPercentile(sorted, 95)
           max == StressMax(sorted)
           sloFailure ==
             IF ThresholdFails(max, maxAllowed) THEN "fail_max"
             ELSE IF ThresholdFails(p95, p95Allowed) THEN "fail_p95"
             ELSE IF ThresholdFails(p99, p99Allowed) THEN "fail_p99"
             ELSE "none"
       IN
         /\ timings' = sorted
         /\ stats' = [computed |-> TRUE, count |-> Len(sorted), p50 |-> p50,
                      p90 |-> p90, p95 |-> p95, p99 |-> p99, max |-> max,
                      maxAllowed |-> maxAllowed, p95Allowed |-> p95Allowed,
                      p99Allowed |-> p99Allowed,
                      annotated |-> sloFailure = "none"]
         /\ apiTimings' = IF sloFailure = "none" /\ Len(apiTimings) > 0
                            THEN SortNumbers(apiTimings) ELSE apiTimings
         /\ outcome' = IF sloFailure # "none" THEN sloFailure
                       ELSE IF ~HasLength(sorted, nUsers) THEN "fail_length"
                       ELSE "passed"
  /\ phase' = "done"
  /\ UNCHANGED <<notRun, mode, nUsers, concurrency, env, next, pc, cur, ctxOf, held,
                 apiStatuses, results, stateFiles, openCtx, ctxCount, ctxUse,
                 claimLog, doneOrder>>

RECURSIVE InsertByIndex(_, _)
InsertByIndex(sorted, r) ==
  IF sorted = << >> THEN <<r>>
  ELSE IF r.index < Head(sorted).index THEN <<r>> \o sorted
  ELSE <<Head(sorted)>> \o InsertByIndex(Tail(sorted), r)

RECURSIVE SortByIndex(_)
\* results.sort((a, b) => a.index - b.index)
SortByIndex(arr) ==
  IF arr = << >> THEN << >>
  ELSE InsertByIndex(SortByIndex(SubSeq(arr, 1, Len(arr) - 1)), arr[Len(arr)])

RECURSIVE SumLoginMs(_)
SumLoginMs(arr) == IF arr = << >> THEN 0 ELSE Head(arr).loginMs + SumLoginMs(Tail(arr))

\* Math.round(sum / Math.max(1, length)) for a sum >= 0
RoundedAverage(sum, length) ==
  LET d == IF length >= 1 THEN length ELSE 1 IN (2 * sum + d) \div (2 * d)

\* Math.max(...xs) / Math.min(...xs): -Infinity / Infinity for no arguments
MaxLoginMs(arr) ==
  IF arr = << >> THEN [t |-> "-inf"]
  ELSE Num(CHOOSE m \in {arr[i].loginMs : i \in 1..Len(arr)} :
             \A i \in 1..Len(arr) : arr[i].loginMs <= m)

MinLoginMs(arr) ==
  IF arr = << >> THEN Infinity
  ELSE Num(CHOOSE m \in {arr[i].loginMs : i \in 1..Len(arr)} :
             \A i \in 1..Len(arr) : arr[i].loginMs >= m)

\* The setup test body after `await Promise.all(...)`: no assertion follows.
SetupSummary ==
  /\ mode = "setup"
  /\ phase = "pool"
  /\ outcome = "running"
  /\ AllReturned
  /\ LET sorted == SortByIndex(results) IN
       /\ results' = sorted
       /\ stats' = [computed |-> TRUE, count |-> Len(sorted),
                    avg |-> RoundedAverage(SumLoginMs(sorted), Len(sorted)),
                    max |-> MaxLoginMs(sorted), min |-> MinLoginMs(sorted)]
  /\ outcome' = "passed"
  /\ phase' = "done"
  /\ UNCHANGED <<notRun, mode, nUsers, concurrency, env, next, pc, cur, ctxOf, held,
                 timings, apiTimings, apiStatuses, stateFiles, openCtx,
                 ctxCount, ctxUse, claimLog, doneOrder>>


\* ------------------------------------------------------ credential resolver
EmptyStr == Str(<< >>)

\* a ?? b
Coalesce(a, b) == IF a.t = "undefined" THEN b ELSE a

\* obj?.field
OptField(obj, field) == IF obj.t = "undefined" THEN Undefined ELSE obj[field]

\* x.trim() || undefined
TrimOrUndefined(x) ==
  LET body == Trim(x.s) IN IF body = << >> THEN Undefined ELSE Str(body)

RECURSIVE SplitFrom(_, _, _)
SplitFrom(rest, piece, sep) ==
  IF rest = << >> THEN <<piece>>
  ELSE IF Head(rest) = sep THEN <<piece>> \o SplitFrom(Tail(rest), << >>, sep)
  ELSE SplitFrom(Tail(rest), Append(piece, Head(rest)), sep)

\* s.split(',')
Split(s, sep) == SplitFrom(s, << >>, sep)

RECURSIVE TrimAll(_)
\* .map((u) => String(u).trim())
TrimAll(items) ==
  IF items = << >> THEN << >> ELSE <<Trim(Head(items))>> \o TrimAll(Tail(items))

RECURSIVE FilterNonEmpty(_)
\* .filter(Boolean) on strings
FilterNonEmpty(items) ==
  IF items = << >> THEN << >>
  ELSE IF Head(items) = << >> THEN FilterNonEmpty(Tail(items))
  ELSE <<Head(items)>> \o FilterNonEmpty(Tail(items))

\* a < b on numbers: false when b is NaN
JsLess(a, b) == a.t = "number" /\ b.t = "number" /\ a.v < b.v

\* arr.slice(0, end): NaN counts as 0, a negative end counts from the back
SliceFromZero(arr, end) ==
  LET n == Len(arr)
      upTo == IF end.t = "nan" THEN 0
              ELSE IF end.v < 0 THEN (IF n + end.v < 0 THEN 0 ELSE n + end.v)
              ELSE IF end.v > n THEN n
              ELSE end.v
  IN SubSeq(arr, 1, upTo)

DigitChar(d) == <<"0", "1", "2", "3", "4", "5", "6", "7", "8", "9">>[d + 1]

RECURSIVE DecimalString(_)
\* String(n) for an integer n >= 0
DecimalString(n) ==
  IF n < 10 THEN <<DigitChar(n)>>
  ELSE Append(DecimalString(n \div 10), DigitChar(n % 10))

\* s.padStart(2, '0')
PadStart2(s) == IF Len(s) < 2 THEN <<"0">> \o s ELSE s

Thrown(kind) == [t |-> "error", error |-> kind]

Returned(list) == [t |-> "ok", list |-> list]

ListTooShortOrEqual(length, c) ==
  length.t = "number" /\ c.t = "number" /\ length.v <= c.v

\* `explicitUsernames.length < count`
ListTooShort(length, c) == JsLess(length, c)

ReuseFlagAnyValue(raw) == Trim(Coalesce(raw, EmptyStr).s) # << >>

\* `(process.env.MYSTAPP_REUSE_SINGLE_USER ?? '').trim() === '1'`
ReuseFlagSet(raw) == Trim(Coalesce(raw, EmptyStr).s) = <<"1">>

ExplicitNeedsTwoNames(names) == Len(names) > 1

\* `explicitUsernames.length > 0`
HasExplicitUsers(names) == Len(names) > 0

\* The explicit list: the csv when MYSTAPP_USERS is non-empty after trim,
\* else the `users` array of the local configuration.
ExplicitUsernames(e, loc) ==
  LET usersCsv == TrimOrUndefined(Coalesce(e.MYSTAPP_USERS, EmptyStr))
      localUsers == OptField(loc, "users")
  IN IF usersCsv.t # "undefined"
       THEN FilterNonEmpty(TrimAll(Split(usersCsv.s, ",")))
       ELSE FilterNonEmpty(TrimAll(Coalesce(localUsers, [t |-> "array", items |-> << >>]).items))

requireMystappUsers(c, e, loc) ==
  LET password ==
        TrimOrUndefined(Coalesce(e.MYSTAPP_PASSWORD,
                          Coalesce(OptField(loc, "password"), EmptyStr)))
      userPrefix ==
        TrimOrUndefined(Coalesce(e.MYSTAPP_USER_PREFIX,
                          Coalesce(OptField(loc, "userPrefix"), EmptyStr)))
      singleUser ==
        TrimOrUndefined(Coalesce(e.MYSTAPP_USER,
                          Coalesce(e.MYSTAPP_USERNAME,
                            Coalesce(OptField(loc, "user"), EmptyStr))))
      explicitUsernames == ExplicitUsernames(e, loc)
      paired(names) ==
        [i \in 1..Len(names) |-> [username |-> names[i], password |-> password.s]]
  IN
  IF HasExplicitUsers(explicitUsernames) THEN
    IF password.t = "undefined" THEN Thrown("missing_password_for_users")
    ELSE IF ListTooShort(Num(Len(explicitUsernames)), c) THEN Thrown("list_too_short")
    ELSE Returned(paired(SliceFromZero(explicitUsernames, c)))
  ELSE IF singleUser.t # "undefined" THEN
    IF password.t = "undefined" THEN Thrown("missing_password_for_single_user")
    ELSE IF c # Num(1) THEN
      IF ~ReuseFlagSet(e.MYSTAPP_REUSE_SINGLE_USER) THEN Thrown("single_user_not_reusable")
      ELSE Returned([i \in 1..ArrayFromLength(c) |->
                       [username |-> singleUser.s, password |-> password.s]])
    ELSE Returned(<<[username |-> singleUser.s, password |-> password.s]>>)
  ELSE IF userPrefix.t = "undefined" \/ password.t = "undefined" THEN
    Thrown("missing_credentials")
  ELSE Returned([i \in 1..ArrayFromLength(c) |->
                   [username |-> userPrefix.s \o PadStart2(DecimalString(i)),
                    password |-> password.s]])

DefaultBaseUrl ==
  <<"h", "t", "t", "p", "s", ":", "/", "/", "q", "a", ".", "m", "y", "s",
    "t", "a", "a", "p", "p", ".", "c", "o", "m">>

\* hasMystappConfig().  The local file of the model has no baseURL.
hasMystappConfig(e, loc) ==
  LET baseUrl ==
        Trim(Coalesce(e.MYSTAPP_BASE_URL,
               Coalesce(OptField(loc, "baseURL"), Str(DefaultBaseUrl))).s)
      password ==
        Trim(Coalesce(e.MYSTAPP_PASSWORD,
               Coalesce(OptField(loc, "password"), EmptyStr)).s)
      usersCsv == Trim(Coalesce(e.MYSTAPP_USERS, EmptyStr).s)
      localUser == OptField(loc, "user")
      localUsersLength ==
        IF OptField(loc, "users").t # "undefined"
          THEN Len(OptField(loc, "users").items)
        ELSE IF localUser.t # "undefined" /\ localUser.s # << >> THEN 1
        ELSE 0
      singleUser ==
        Trim(Coalesce(e.MYSTAPP_USER, Coalesce(e.MYSTAPP_USERNAME, EmptyStr)).s)
      userPrefix ==
        Trim(Coalesce(e.MYSTAPP_USER_PREFIX,
               Coalesce(OptField(loc, "userPrefix"), EmptyStr)).s)
      hasExplicitUsers ==
        (usersCsv # << >> \/ localUsersLength > 0 \/ singleUser # << >>)
          /\ password # << >>
      hasGeneratedUsers == userPrefix # << >> /\ password # << >>
  IN baseUrl # << >> /\ (hasExplicitUsers \/ hasGeneratedUsers)

\* The tests that resolve users, and the counts they ask for: USERS_TO_LOGIN
\* is any Number(...); the invoices test asks for 1; the service vehicles
\* spec asks for Math.max(1, Number(raw) || 1).
Callers == {"setup", "stress", "invoices", "serviceVehicles"}

CallerCounts(caller) ==
  CASE caller = "invoices" -> {Num(1)}
    [] caller = "serviceVehicles" -> {Num(c) : c \in 1..MaxCount}
    [] OTHER -> {NaN} \cup {Num(c) : c \in -1..MaxCount}

\* the callers if none of them caught the error
AfterRequireNeverCaught(caller, has, res) ==
  IF res.t = "error" THEN "fail_config"
  ELSE IF caller = "serviceVehicles" /\ ~has THEN "skipped"
  ELSE "running"

\* What becomes of the test once requireMystappUsers has returned or thrown:
\* the service vehicles spec catches the error and registers a skipped test
\* (lines 228-238), then skips on !hasMystappConfig(); in the other tests
\* the error leaves the test body.
AfterRequire(caller, has, res) ==
  IF caller = "serviceVehicles"
  THEN IF res.t = "error" \/ ~has THEN "skipped" ELSE "running"
  ELSE IF res.t = "error" THEN "fail_config" ELSE "running"

\* A caller resolves its users: test.skip(!hasMystappConfig(), ...) throws
\* before requireMystappUsers is called, except in the service vehicles
\* spec, which calls it when the file is loaded.
RequireUsers ==
  /\ users.t = "none"
  /\ outcome = "running"
  /\ LET has == hasMystappConfig(credEnv, localCfg)
         res == requireMystappUsers(count, credEnv, localCfg)
     IN IF mode # "serviceVehicles" /\ ~has
        THEN users' = users /\ outcome' = "skipped"
        ELSE users' = res /\ outcome' = AfterRequire(mode, has, res)
  /\ UNCHANGED <<mode, nUsers, concurrency, env, phase, poolVars, stats,
                 loginVars, dateVars, auxVars, credEnv, localCfg, count,
                 csvNames>>


\* ------------------------------------------------------------ mystappLogin
\* `process.env.X?.trim()` as a condition: a selector override is in effect
\* when the variable is set and not blank.
OverrideSet(raw) == raw.t = "string" /\ Trim(raw.s) # << >>

\* mystappLoginApiUrlRegex() returns a RegExp
ApiRegexConfigured(e) == ~Falsy(e.MYSTAPP_LOGIN_API_URL_REGEX)
                           /\ Trim(e.MYSTAPP_LOGIN_API_URL_REGEX.s) # << >>

\* mystappLoginPath() with MYSTAPP_LOGIN_PATH unset: '/login', written "/l"
LoginPath == <<"/", "l">>

LoginRegexAnchoredAtEnd(u) ==
  Len(u) >= Len(LoginPath) /\ SubSeq(u, Len(u) - Len(LoginPath) + 1, Len(u)) = LoginPath

LoginRegexPathAnywhere(u) ==
  \E i \in 1..Len(u) :
    i + Len(LoginPath) - 1 <= Len(u) /\ SubSeq(u, i, i + Len(LoginPath) - 1) = LoginPath

\* loginRegex.test(u) for `${escapeRegex(path)}($|[?#])`: the path occurs in
\* u and is followed by the end of u, by '?' or by '#'.
LoginRegexTest(u) ==
  \E i \in 1..Len(u) :
    LET j == i + Len(LoginPath) - 1 IN
    /\ j <= Len(u)
    /\ SubSeq(u, i, j) = LoginPath
    /\ (j = Len(u) \/ u[j + 1] \in {"?", "#"})

\* The URLs a page is seen at: the login page (bare, with a query, with a
\* fragment), pages whose path only starts like the login path, another page
\* of the application, and about:blank (a navigation that failed).
Urls ==
  { <<"h", "/", "l">>, <<"h", "/", "l", "?", "n">>, <<"h", "/", "l", "#">>,
    <<"h", "/", "l", "/", "r">>, <<"h", "/", "l", "x">>, <<"h", "/", "d">>,
    <<"b">> }

\* The candidate lists (usernameCandidates, passwordCandidates,
\* submitCandidates), in the order the arrays are written.
Candidates(field, e, passwordInputsCount) ==
  CASE field = "username" ->
         (IF OverrideSet(e.MYSTAPP_USERNAME_SELECTOR) THEN <<"env">> ELSE << >>)
           \o (IF passwordInputsCount >= 1 THEN <<"passwordInputs.nth(0)">> ELSE << >>)
           \o <<"label|placeholder", "textbox.first", "input">>
    [] field = "password" ->
         (IF OverrideSet(e.MYSTAPP_PASSWORD_SELECTOR) THEN <<"env">> ELSE << >>)
           \o (IF passwordInputsCount >= 2 THEN <<"passwordInputs.nth(1)">> ELSE << >>)
           \o <<"label|placeholder", "textbox.nth(1)", "input[type=password]">>
    [] field = "submit" ->
         (IF OverrideSet(e.MYSTAPP_SUBMIT_SELECTOR) THEN <<"env">> ELSE << >>)
           \o <<"button[name]", "[type=submit]">>

\* What one `await loc.isVisible()` gives.
Visibility == {"visible", "hidden", "throws"}

\* One element of a locator: `candidate.first()` is Nth(candidate, 0),
\* `passwordInputs.nth(1)` is Nth("passwordInputs", 1).
Nth(locator, n) == [t |-> "locator", of |-> locator, nth |-> n]

FirstVisibleCountingThrows(candidates, checks, i) ==
  LET seen == {k \in 1..Len(candidates) : checks[k] # "hidden"} IN
  IF seen = {} THEN Undefined
  ELSE Nth(candidates[CHOOSE k \in seen : \A m \in seen : k <= m], 0)

RECURSIVE firstVisibleLocator(_, _, _)
\* The loop over the candidates from the i-th on.
firstVisibleLocator(candidates, checks, i) ==
  IF i > Len(candidates) THEN Undefined
  ELSE IF checks[i] = "visible" THEN Nth(candidates[i], 0)
  ELSE firstVisibleLocator(candidates, checks, i + 1)

Probe(field, candidates, checks) ==
  [field |-> field, candidates |-> candidates, checks |-> checks,
   result |-> firstVisibleLocator(candidates, checks, 1)]

CapturedWithoutUrl(status) ==
  [apiMs |-> Num(1), apiStatus |-> Num(status), apiUrl |-> Undefined]

\* Lines 515-517: the three assignments after the response has arrived.
CapturedMetrics(status) ==
  [apiMs |-> Num(1), apiStatus |-> Num(status), apiUrl |-> Str(<<"/", "a">>)]

AfterNavigationSkipsRender(u) ==
  IF ~LoginRegexTest(u) THEN "awaitApiEarly" ELSE "username"

\* Line 533: where the call goes on after the navigation.
AfterNavigation(u) == IF ~LoginRegexTest(u) THEN "awaitApiEarly" ELSE "render"

\* The object mystappLogin returns.
LoginMetrics(total) ==
  [t |-> "ok", totalMs |-> Num(total), apiMs |-> metrics.apiMs,
   apiStatus |-> metrics.apiStatus, apiUrl |-> metrics.apiUrl]

\* mystappLogin throws: the call ends without a value.
LoginThrows(kind) ==
  /\ lpc' = "threw"
  /\ lresult' = Thrown(kind)

\* Lines 501-523: the call starts; with a regex configured the response wait
\* is started and runs beside the call.
LoginStarts ==
  /\ lpc = "idle"
  /\ lpc' = "goto"
  /\ apiWait' = IF ApiRegexConfigured(loginEnv) THEN "pending" ELSE "none"
  /\ UNCHANGED <<notLogin, loginEnv, metrics, url, polls, trace, probe, fields,
                 lresult>>

\* Lines 511-521: the response wait settles: a matching response arrives
\* within 20 s and the three metrics are set, or the wait times out or fails
\* and the error is swallowed.
ApiWaitSettles ==
  /\ apiWait = "pending"
  /\ \/ /\ apiWait' = "captured"
        /\ \E status \in {200, 401} : metrics' = CapturedMetrics(status)
     \/ /\ apiWait' = "failed"
        /\ UNCHANGED metrics
  /\ UNCHANGED <<notLogin, loginEnv, lpc, url, polls, trace, probe, fields, lresult>>

\* Lines 527-541: page.goto settles (a failure is caught), then the URL is
\* tested against the login pattern.
Navigated ==
  /\ lpc = "goto"
  /\ \E u \in Urls :
       /\ url' = u
       /\ lpc' = AfterNavigation(u)
  /\ trace' = Append(trace, "navigated")
  /\ polls' = 0
  /\ UNCHANGED <<notLogin, loginEnv, apiWait, metrics, probe, fields, lresult>>

\* Lines 534-540 and 672-679: `await apiWaitPromise`, then the return.
LoginReturnsMetrics ==
  /\ lpc \in {"awaitApiEarly", "awaitApi"}
  /\ apiWait # "pending"
  /\ \E total \in Durations : lresult' = LoginMetrics(total)
  /\ lpc' = "returned"
  /\ trace' = IF lpc = "awaitApiEarly" THEN Append(trace, "already_authenticated")
              ELSE trace
  /\ UNCHANGED <<notLogin, loginEnv, apiWait, metrics, url, polls, probe, fields>>

\* Lines 546-577: one round of the render wait; the loop ends when something
\* is visible or at the deadline, and the call goes on in both cases.
\* Lines 579-585: the root is found and the password inputs are counted
\* (a count that fails gives 0).
RenderPoll ==
  /\ lpc = "render"
  /\ \/ /\ polls < MaxPolls
        /\ polls' = polls + 1
        /\ UNCHANGED <<lpc, trace, fields>>
     \/ /\ \E c \in 0..MaxPasswordInputs :
             fields' = [fields EXCEPT !.passwordInputsCount = c]
        /\ lpc' = "username"
        /\ polls' = 0
        /\ trace' = Append(trace, "form_rendering")
  /\ UNCHANGED <<notLogin, loginEnv, apiWait, metrics, url, probe, lresult>>

\* Lines 615-624: the three fields are resolved one after the other; after
\* the last one the two required fields are checked, the username first.
FieldResolved(field) ==
  /\ lpc = field
  /\ LET candidates == Candidates(field, loginEnv, fields.passwordInputsCount) IN
     \E checks \in [1..Len(candidates) -> Visibility] :
       /\ probe' = Probe(field, candidates, checks)
       /\ fields' = [fields EXCEPT ![field] = probe'.result]
  /\ CASE field = "username" -> lpc' = "password" /\ UNCHANGED lresult
       [] field = "password" -> lpc' = "submit" /\ UNCHANGED lresult
       [] field = "submit" ->
            IF fields.username = Undefined
              THEN LoginThrows("Could not find username/email field. Set MYSTAPP_USERNAME_SELECTOR to override.")
            ELSE IF fields.password = Undefined
              THEN LoginThrows("Could not find password field. Set MYSTAPP_PASSWORD_SELECTOR to override.")
            ELSE lpc' = "usernameVisible" /\ UNCHANGED lresult
  /\ UNCHANGED <<notLogin, loginEnv, apiWait, metrics, url, polls, trace>>

\* Lines 626-634: the username is awaited visible, the password found
\* before is dropped when it may be the username's own input
\* (`!passwordFromEnv && passwordInputsCount === 1`), and the username is
\* filled.
UsernameFilled ==
  LET kept == IF ~OverrideSet(loginEnv.MYSTAPP_PASSWORD_SELECTOR)
                   /\ fields.passwordInputsCount = 1
                THEN [fields EXCEPT !.password = Undefined] ELSE fields
  IN
  /\ lpc = "usernameVisible"
  /\ \/ LoginThrows("expect(username).toBeVisible") /\ UNCHANGED <<trace, fields>>
     \/ LoginThrows("username.fill") /\ fields' = kept /\ UNCHANGED trace
     \/ /\ fields' = kept
        /\ trace' = Append(trace, "username_filled")
        /\ lpc' = IF kept.password = Undefined THEN "secondPassword"
                  ELSE "passwordVisible"
        /\ UNCHANGED lresult
  /\ probe' = [field |-> "none"]
  /\ UNCHANGED <<notLogin, loginEnv, apiWait, metrics, url, polls>>

SecondInputOptional(refreshedCount) == refreshedCount >= 1

\* `refreshedCount >= 2`
SecondInputPresent(refreshedCount) == refreshedCount >= 2

\* Lines 636-646: up to 10 s for a second password input (a failed wait is
\* swallowed), the inputs are counted again, and the second one is taken.
SecondPasswordResolved ==
  /\ lpc = "secondPassword"
  /\ \E refreshedCount \in 0..MaxPasswordInputs :
       IF SecondInputPresent(refreshedCount)
         THEN /\ fields' = [fields EXCEPT !.refreshedCount = Num(refreshedCount),
                                       !.password = Nth("passwordInputs", 1)]
              /\ trace' = Append(trace, "password_reresolved")
              /\ lpc' = "passwordVisible"
              /\ UNCHANGED lresult
         ELSE /\ LoginThrows("Could not find password field after filling username. Set MYSTAPP_PASSWORD_SELECTOR to override.")
              /\ fields' = [fields EXCEPT !.refreshedCount = Num(refreshedCount)]
              /\ UNCHANGED trace
  /\ UNCHANGED <<notLogin, loginEnv, apiWait, metrics, url, polls, probe>>

\* Lines 648-649
PasswordFilled ==
  /\ lpc = "passwordVisible"
  /\ \/ LoginThrows("expect(password).toBeVisible") /\ UNCHANGED trace
     \/ LoginThrows("password.fill") /\ UNCHANGED trace
     \/ /\ trace' = Append(trace, "password_filled")
        /\ lpc' = "click"
        /\ UNCHANGED lresult
  /\ UNCHANGED <<notLogin, loginEnv, apiWait, metrics, url, polls, probe, fields>>

\* Lines 651-666: the submit control is clicked when one was found; when
\* the click fails or there is none, the password is focused and Enter is
\* pressed (failures of both are swallowed).
Submitted ==
  /\ lpc = "click"
  /\ \E how \in IF fields.submit = Undefined THEN {"pressed_enter"}
                 ELSE {"clicked", "pressed_enter"} :
       trace' = Append(trace, how)
  /\ lpc' = "leftLogin"
  /\ polls' = 0
  /\ UNCHANGED <<notLogin, loginEnv, apiWait, metrics, url, probe, fields, lresult>>

\* Line 670: the URL is read again and again for 20 s; the expectation is
\* met by the first URL that does not match and fails at the deadline.
LeftLoginPoll ==
  /\ lpc = "leftLogin"
  /\ \E u \in Urls :
       /\ url' = u
       /\ IF ~LoginRegexTest(u)
            THEN /\ lpc' = "awaitApi"
                 /\ trace' = Append(trace, "left_login_page")
                 /\ UNCHANGED <<polls, lresult>>
            ELSE IF polls < MaxPolls
              THEN /\ polls' = polls + 1
                   /\ UNCHANGED <<lpc, trace, lresult>>
              ELSE /\ LoginThrows("expect(page).not.toHaveURL(loginRegex)")
                   /\ trace' = Append(trace, "left_login_timeout")
                   /\ UNCHANGED polls
  /\ UNCHANGED <<notLogin, loginEnv, apiWait, metrics, probe, fields>>

\* Nothing set; only the API regex; blank values; only the password
\* selector; the regex and the three selectors.
LoginEnvs ==
  LET E(regex, u, p, s) ==
        [MYSTAPP_LOGIN_API_URL_REGEX |-> regex, MYSTAPP_USERNAME_SELECTOR |-> u,
         MYSTAPP_PASSWORD_SELECTOR |-> p, MYSTAPP_SUBMIT_SELECTOR |-> s]
  IN { E(Undefined, Undefined, Undefined, Undefined),
       E(Str(<<"/", "a">>), Undefined, Undefined, Undefined),
       E(Str(<<" ">>), Undefined, Str(<<" ">>), Undefined),
       E(Undefined, Undefined, Str(<<" ", "#", "p">>), Undefined),
       E(Str(<<"/", "a">>), Str(<<"#", "u">>), Str(<<"#", "p">>), Str(<<"#", "s">>)) }

\* Lines 501-506: a page (about:blank) on which mystappLogin has done nothing.
LoginFresh ==
  /\ url = <<"b">>
  /\ polls = 0
  /\ trace = << >>
  /\ probe = [field |-> "none"]
  /\ fields = [passwordInputsCount |-> 0, refreshedCount |-> Undefined,
               username |-> Undefined, password |-> Undefined, submit |-> Undefined]
  /\ apiWait = "none"
  /\ metrics = [apiMs |-> Undefined, apiStatus |-> Undefined, apiUrl |-> Undefined]
  /\ lresult = [t |-> "none"]

\* The login variables of a run that does not look into mystappLogin.
LoginIdle ==
  /\ loginEnv \in {e \in LoginEnvs : \A k \in DOMAIN e : e[k] = Undefined}
  /\ lpc = "unused"
  /\ LoginFresh

\* --------------------------------------------------------- the date filler
\* invoices.spec.ts: mystappDateFormat, toIsoDate and fillDateInput.

\* String.prototype.toUpperCase, on the letters a format name is written in
ToUpperCase(s) ==
  [i \in 1..Len(s) |->
     CASE s[i] = "d" -> "D" [] s[i] = "m" -> "M" [] s[i] = "y" -> "Y"
       [] OTHER -> s[i]]

\* The DateFormat a MYSTAPP_DATE_FORMAT value selects: anything but
\* 'DD/MM/YYYY' (after trim and upper-casing) is 'MM/DD/YYYY'.
mystappDateFormat(e) ==
  LET fallback == <<"M", "M", "/", "D", "D", "/", "Y", "Y", "Y", "Y">>
      raw == ToUpperCase(Trim(IF e = Undefined THEN fallback ELSE e.s))
  IN IF raw = <<"D", "D", "/", "M", "M", "/", "Y", "Y", "Y", "Y">>
       THEN "DD/MM/YYYY"
       ELSE "MM/DD/YYYY"

DayPartIsFirst(parts, format) == parts[1]

\* const dd = format === 'DD/MM/YYYY' ? a : b
DayPart(parts, format) == IF format = "DD/MM/YYYY" THEN parts[1] ELSE parts[2]

\* toIsoDate: the ISO string, or the error it throws
toIsoDate(raw, format) ==
  LET parts == TrimAll(Split(Trim(raw), "/"))
      \* /^[0-9]{lo,hi}$/.test(s)
      Matches(s, lo, hi) ==
        Len(s) \in lo..hi /\ \A i \in 1..Len(s) : s[i] \in Digits
  IN IF Len(parts) # 3
       THEN Thrown([message |-> "Invalid date", raw |-> raw, format |-> format])
     ELSE
       LET dd == DayPart(parts, format)
           mm == IF format = "DD/MM/YYYY" THEN parts[2] ELSE parts[1]
           yyyy == parts[3]
       IN IF ~Matches(yyyy, 4, 4)
            THEN Thrown([message |-> "Invalid year", raw |-> raw])
          ELSE IF ~Matches(dd, 1, 2) \/ ~Matches(mm, 1, 2)
            THEN Thrown([message |-> "Invalid day/month", raw |-> raw])
          ELSE Str(yyyy \o <<"-">> \o PadStart2(mm) \o <<"-">> \o PadStart2(dd))

\* Line 76: const value = inputType === 'date' ? toIsoDate(...) : rawDate
DateValue(type, raw, format) ==
  IF type = "date" THEN toIsoDate(raw, format) ELSE Str(raw)

ReadBackMatchesUntrimmed(readBack, value) == readBack = value

\* (await readValue()).trim() === value
ReadBackMatches(readBack, value) == Trim(readBack) = value

\* What readValue() may find in the input after an attempt: the value, the
\* value between blanks, nothing, or something else the widget put there.
ReadBacks(value) == {value, <<" ">> \o value \o <<" ">>, << >>, <<"x">>}

\* The three attempts, by the prefix their error is recorded under.
AttemptTags == <<"fill", "keyboard", "js">>

\* Lines 72-76: the format, the type of the input and the value to write. A
\* raw date toIsoDate rejects ends the call before any attempt.
DateStarts ==
  /\ dpc = "idle"
  /\ LET value == DateValue(inputType, rawDate, mystappDateFormat(dateEnv)) IN
       IF value.t = "error"
         THEN /\ dpc' = "threw"
              /\ dresult' = value
              /\ UNCHANGED dvalue
         ELSE /\ dpc' = AttemptTags[1]
              /\ dvalue' = value.s
              /\ UNCHANGED dresult
  /\ UNCHANGED <<notDate, dateEnv, rawDate, inputType, attemptErrors, attempts>>

\* Lines 119-138, 142-158 and 162-182: the k-th try block. Either one of its
\* steps (readValue included) throws and the catch block records the message,
\* or it gets to compare the read-back with the value.
Attempt(k) ==
  LET tag == AttemptTags[k]
      following == IF k < Len(AttemptTags) THEN AttemptTags[k + 1] ELSE "final"
  IN
  /\ dpc = tag
  /\ \/ /\ attemptErrors' = Append(attemptErrors, [tag |-> tag, message |-> "e"])
        /\ attempts' = Append(attempts, [tag |-> tag, outcome |-> "threw"])
        /\ dpc' = following
        /\ UNCHANGED dresult
     \/ \E readBack \in ReadBacks(dvalue) :
          /\ attempts' = Append(attempts, [tag |-> tag, outcome |-> "read",
                                           readBack |-> readBack])
          /\ IF ReadBackMatches(readBack, dvalue)
               THEN /\ dpc' = "returned"
                    /\ dresult' = [t |-> "ok"]
               ELSE /\ dpc' = following
                    /\ UNCHANGED dresult
          /\ UNCHANGED attemptErrors
  /\ UNCHANGED <<notDate, dateEnv, rawDate, inputType, dvalue>>

\* Lines 184-185: the last readValue(), outside every try block, and the
\* error built from it and from attemptErrors.
FinalRead ==
  /\ dpc = "final"
  /\ dpc' = "threw"
  /\ \/ /\ dresult' = Thrown([message |-> "readValue"])
        /\ attempts' = Append(attempts, [tag |-> "final", outcome |-> "threw"])
     \/ \E readBack \in ReadBacks(dvalue) :
          /\ dresult' = Thrown([message |-> "Could not set date input",
                                value |-> dvalue,
                                current |-> Trim(readBack),
                                attempts |-> attemptErrors])
          /\ attempts' = Append(attempts, [tag |-> "final", outcome |-> "read",
                                           readBack |-> readBack])
  /\ UNCHANGED <<notDate, dateEnv, rawDate, inputType, dvalue, attemptErrors>>

\* service-vehicles.spec.ts has its own toIsoDate and fillDateInput.
\* toIsoDate there: only the number of parts is checked.
svToIsoDate(raw, format) ==
  LET parts == TrimAll(Split(Trim(raw), "/"))
      \* s.padStart(2, '0')
      Pad(s) == IF Len(s) = 0 THEN <<"0", "0">>
                ELSE IF Len(s) = 1 THEN <<"0">> \o s ELSE s
  IN IF Len(parts) # 3
       THEN Thrown([message |-> "Invalid date", raw |-> raw, format |-> format])
     ELSE
       LET dd == DayPart(parts, format)
           mm == IF format = "DD/MM/YYYY" THEN parts[2] ELSE parts[1]
       IN Str(parts[3] \o <<"-">> \o Pad(mm) \o <<"-">> \o Pad(dd))

\* The call waits for the element.
Pending == [t |-> "pending"]

\* fillDateInput there, on the responses the element gives to the attempts
\* in turn (an attempt throws in one of its steps, or its read-back is
\* compared).  Attempt 1 (make editable, fill, events) is in no try block, so
\* a step of it that throws ends the call; attempt 2 (click, keys) is the
\* last one.
svFillDateInput(type, raw, format, responses) ==
  LET value == IF type = "date" THEN svToIsoDate(raw, format) ELSE Str(raw)
      Matches(r) == Trim(r.readBack) = value.s
  IN IF value.t = "error" THEN value
     ELSE IF Len(responses) < 1 THEN Pending
     ELSE IF responses[1].outcome = "threw" THEN Thrown([message |-> "attempt 1"])
     ELSE IF Matches(responses[1]) THEN [t |-> "ok"]
     ELSE IF Len(responses) < 2 THEN Pending
     ELSE IF responses[2].outcome = "threw" THEN Thrown([message |-> "attempt 2"])
     ELSE IF Matches(responses[2]) THEN [t |-> "ok"]
     ELSE Thrown([message |-> "Could not set date input", value |-> value.s])

\* Unset, the two formats, a format in lower case between blanks, the empty
\* string and a name that is not a format.
DateEnvs ==
  { Undefined,
    Str(<<"D", "D", "/", "M", "M", "/", "Y", "Y", "Y", "Y">>),
    Str(<<"M", "M", "/", "D", "D", "/", "Y", "Y", "Y", "Y">>),
    Str(<<" ", "d", "d", "/", "m", "m", "/", "y", "y", "y", "y", " ">>),
    Str(<< >>),
    Str(<<"I", "S", "O">>) }

\* '02/01/2025', '01/02/2025', ' 2/ 1/2025 ', '13/02/2025', '02/01/25',
\* '02/x/2025', '02//2025', '02-01-2025' and '1/2/3/2025'.
RawDates ==
  LET y == <<"2", "0", "2", "5">> IN
  { <<"0", "2", "/", "0", "1", "/">> \o y,
    <<"0", "1", "/", "0", "2", "/">> \o y,
    <<" ", "2", "/", " ", "1", "/">> \o y \o <<" ">>,
    <<"1", "3", "/", "0", "2", "/">> \o y,
    <<"0", "2", "/", "0", "1", "/", "2", "5">>,
    <<"0", "2", "/", "x", "/">> \o y,
    <<"0", "2", "/", "/">> \o y,
    <<"0", "2", "-", "0", "1", "-">> \o y,
    <<"1", "/", "2", "/", "3", "/">> \o y }

\* el.type of the target; "undefined" when the evaluate call failed.
InputTypes == {"date", "text", "undefined"}

\* Line 104: nothing attempted yet.
DateFresh ==
  /\ dvalue = << >>
  /\ attemptErrors = << >>
  /\ attempts = << >>
  /\ dresult = [t |-> "none"]

\* The date variables of a run that fills no date input.
DateIdle ==
  /\ dateEnv = Undefined
  /\ rawDate = << >>
  /\ inputType = "undefined"
  /\ dpc = "unused"
  /\ DateFresh

\* ----------------------------------------------------------- the grid wait
\* service-vehicles.spec.ts: waitForServiceVehiclesGridReady and
\* clickSecondRowRecordAndOpenPopup; invoices.spec.ts: clickSecondRowInvoice
\* and clickSecondRowInvoiceAndGetInvoiceValue. The four loops differ in what
\* a poll with two rows does and in what the end of the wait gives.
Routines ==
  {"waitForServiceVehiclesGridReady", "clickSecondRowRecordAndOpenPopup",
   "clickSecondRowInvoice", "clickSecondRowInvoiceAndGetInvoiceValue"}

\* The invoices loops count the rows twice and take Math.max(css, role); the
\* service vehicles loops count dataRows only.
RowCount(routine, cssCount, roleCount) ==
  IF routine \in {"clickSecondRowInvoice", "clickSecondRowInvoiceAndGetInvoiceValue"}
    THEN (IF cssCount >= roleCount THEN cssCount ELSE roleCount)
    ELSE cssCount

EnoughRowsIsOne(n) == n >= 1

\* rowCount >= 2
EnoughRows(n) == n >= 2

EmptyOnlyIfSeenLast(sawEmpty, emptyVisible) == emptyVisible

\* if (emptyVisible) sawEmpty = true
SeenEmpty(sawEmpty, emptyVisible) == sawEmpty \/ emptyVisible

\* What the routine does with the count made after the loop: the status
\* object of waitForServiceVehiclesGridReady, or in the other three the two
\* errors, the allowEmpty return, or going on to the second row.
EndOfWait(routine, allowEmpty, sawEmpty, finalCount) ==
  IF routine = "waitForServiceVehiclesGridReady"
    THEN [t |-> "ok",
          status |-> IF EnoughRows(finalCount) THEN "data"
                     ELSE IF sawEmpty THEN "empty" ELSE "timeout",
          rowCount |-> finalCount]
  ELSE IF ~EnoughRows(finalCount) /\ sawEmpty
    THEN IF allowEmpty
           THEN [t |-> "ok", status |-> "empty", done |-> FALSE]
           ELSE [t |-> "error", status |-> "empty",
                 error |-> "No record found after refresh."]
  ELSE IF ~EnoughRows(finalCount)
    THEN [t |-> "error", status |-> "timeout",
          error |-> "grid did not load at least 2 rows."]
  ELSE [t |-> "ok", status |-> "data", rowCount |-> finalCount]

\* What the test that called the routine does with the outcome:
\* service-vehicles.spec.ts 287-296 keeps the duration and drops the status,
\* 302-310 and invoices.spec.ts 675-678 skip when nothing was opened or
\* clicked; an error ends the test as failed. clickSecondRowInvoice has no
\* caller.
CallerDoes(routine, result) ==
  IF result.t = "error" THEN "fails"
  ELSE IF routine = "waitForServiceVehiclesGridReady" THEN "goes_on"
  ELSE IF routine = "clickSecondRowInvoice" THEN "no_caller"
  ELSE IF result.status = "empty" THEN "skips"
  ELSE "goes_on"

GridEnds(g, result) ==
  [g EXCEPT !.pc = IF result.t = "error" THEN "threw"
                   ELSE IF result.status = "data" /\ g.routine # "waitForServiceVehiclesGridReady"
                     THEN "secondRow"
                   ELSE "returned",
            !.result = result,
            !.caller = CallerDoes(g.routine, result)]

\* Lines 103-109 (139-145, 219-229, 345-355): one round of the loop while
\* the deadline is ahead. A count or an isVisible() that throws is 0, false.
GridPoll ==
  /\ grid.pc = "poll"
  /\ grid.polls < MaxGridPolls
  /\ \E cssCount \in 0..MaxRows, roleCount \in 0..MaxRows, emptyVisible \in BOOLEAN :
       LET rows == RowCount(grid.routine, cssCount, roleCount)
           looked == [grid EXCEPT !.polls = @ + 1] IN
       IF EnoughRows(rows)
         THEN LET seen == [looked EXCEPT
                             !.obs = Append(@, [at |-> "poll", rows |-> rows,
                                                emptyVisible |-> FALSE])] IN
              IF grid.routine = "waitForServiceVehiclesGridReady"
                THEN grid' = GridEnds(seen, [t |-> "ok", status |-> "data",
                                             rowCount |-> rows])
                ELSE grid' = [seen EXCEPT !.pc = "recount"]
         ELSE grid' = [looked EXCEPT
                         !.obs = Append(@, [at |-> "poll", rows |-> rows,
                                            emptyVisible |-> emptyVisible]),
                         !.sawEmpty = SeenEmpty(@, emptyVisible)]
  /\ UNCHANGED notGrid

\* while (Date.now() < deadline) is false: 45 s have passed. The first test
\* of the condition comes right after the deadline was set.
GridDeadline ==
  /\ grid.pc = "poll"
  /\ grid.polls >= 1
  /\ grid' = [grid EXCEPT !.pc = "recount", !.deadlinePassed = TRUE]
  /\ UNCHANGED notGrid

\* Lines 111-113 (147-154, 231-242, 357-366): the count after the loop.
GridRecount ==
  /\ grid.pc = "recount"
  /\ \E cssCount \in 0..MaxRows, roleCount \in 0..MaxRows :
       LET rows == RowCount(grid.routine, cssCount, roleCount) IN
       grid' = GridEnds([grid EXCEPT
                           !.obs = Append(@, [at |-> "recount", rows |-> rows,
                                              emptyVisible |-> FALSE])],
                        EndOfWait(grid.routine, grid.allowEmpty, grid.sawEmpty, rows))
  /\ UNCHANGED notGrid

\* let sawEmpty = false; const deadline = Date.now() + 45_000
GridStarts(routine, allowEmpty) ==
  [pc |-> "poll", routine |-> routine, allowEmpty |-> allowEmpty, polls |-> 0,
   sawEmpty |-> FALSE, deadlinePassed |-> FALSE, obs |-> << >>,
   result |-> [t |-> "none"], caller |-> "waits"]

\* ---------------------------------------------------------- the popup race
\* clickSecondRowRecordAndOpenPopup (service-vehicles.spec.ts 156-218) and
\* clickSecondRowInvoiceAndGetInvoiceValue (invoices.spec.ts 368-463) from
\* the second row on.
ClickRoutines ==
  {"clickSecondRowRecordAndOpenPopup", "clickSecondRowInvoiceAndGetInvoiceValue"}

\* The element the routine will click: the configured selector, the cell
\* under the column found in the header, or the fallback chain when no
\* header matched or the index is past the cells of the row.
ResolvedCell(routine, selectorSet, colIndex, cellCount) ==
  IF selectorSet THEN "selector"
  ELSE IF routine = "clickSecondRowRecordAndOpenPopup"
    THEN IF colIndex >= 0 /\ colIndex < cellCount THEN "column" ELSE "fallback"
  ELSE IF colIndex >= 0 /\ ~(cellCount > 0 /\ colIndex >= cellCount)
    THEN "column"
  ELSE "fallback"

\* The popup wait of the race has 20 s against the 15 s of the click in
\* service vehicles, and 15 s against 15 s in invoices, where it is started
\* first: only there can it time out before the click settles.
PopupWaitCanTimeOutFirst(routine) ==
  routine = "clickSecondRowInvoiceAndGetInvoiceValue"

\* return { opened: true, popup } / { clicked: true, invoiceValue, popup }
RaceReturns(r, popup) ==
  [r EXCEPT !.pc = "returned", !.result = [t |-> "ok", done |-> TRUE, popup |-> popup]]

\* A popup reached the variable `popup`: service vehicles waits for its
\* load state, invoices returns it.
PopupTaken(r) ==
  IF r.routine = "clickSecondRowRecordAndOpenPopup"
    THEN [r EXCEPT !.pc = "loadState", !.popup = TRUE]
    ELSE RaceReturns([r EXCEPT !.popup = TRUE], TRUE)

\* if (!popup) popup = await page.waitForEvent('popup', { timeout: 5_000 }):
\* the second wait starts to listen in the step that ends the race.
GraceStarts(r) == [r EXCEPT !.pc = "grace", !.w2 = "listening"]

\* expect(cell).toBeVisible passes and Promise.race is entered: the popup
\* wait listens and the click is under way; or the expectation throws.
RaceEntered ==
  /\ popupRace.pc = "cell"
  /\ \/ popupRace' = [popupRace EXCEPT !.pc = "race", !.w1 = "listening",
                                       !.k1 = "pending"]
     \/ popupRace' = [popupRace EXCEPT !.pc = "threw",
                                       !.result = [t |-> "error", error |-> "toBeVisible"]]
  /\ UNCHANGED notPopupRace

\* The page receives the click of call c (1: inside the race, 2: in the
\* catch block) while that call is in flight.
ClickPerformed(c) ==
  LET k == IF c = 1 THEN "k1" ELSE "k2" IN
  /\ popupRace.pc \in {"race", "retryClick", "grace"}
  /\ popupRace[k] = "pending"
  /\ popupRace' = [popupRace EXCEPT ![k] = "performed", !.clicks = @ + 1]
  /\ UNCHANGED notPopupRace

\* click() of call c settles: it resolves once the click was performed, or
\* rejects (15 s). The first settles the race if the race is still open;
\* the second ends the catch block.
ClickSettles(c) ==
  LET k == IF c = 1 THEN "k1" ELSE "k2" IN
  /\ popupRace.pc \in {"race", "retryClick", "grace"}
  /\ popupRace[k] \in {"pending", "performed"}
  /\ \E settled \in {"resolved", "rejected"} :
       /\ settled = "resolved" => popupRace[k] = "performed"
       /\ LET r == [popupRace EXCEPT ![k] = settled] IN
          popupRace' =
            IF c = 1 /\ r.pc = "race"
              THEN IF settled = "resolved" THEN GraceStarts(r)
                   ELSE [r EXCEPT !.pc = "retryClick", !.k2 = "pending"]
            ELSE IF c = 2 /\ r.pc = "retryClick"
              THEN IF settled = "resolved" THEN GraceStarts(r)
                   ELSE [r EXCEPT !.pc = "threw",
                                  !.result = [t |-> "error", error |-> "click"]]
            ELSE r
  /\ UNCHANGED notPopupRace

\* The popup wait of the race rejects before the click settled: the catch
\* block clicks again.
PopupWaitTimesOut ==
  /\ popupRace.pc = "race"
  /\ PopupWaitCanTimeOutFirst(popupRace.routine)
  /\ popupRace' = [popupRace EXCEPT !.pc = "retryClick", !.w1 = "timedOut",
                                    !.k2 = "pending"]
  /\ UNCHANGED notPopupRace

\* The page emits 'popup' after a click: a wait that listens takes it. The
\* one of the race hands it to `popup` only while the race is open.
PopupOpens ==
  /\ popupRace.pc \in {"race", "retryClick", "grace"}
  /\ popupRace.clicks >= 1
  /\ popupRace.fired = "no"
  /\ LET r == [popupRace EXCEPT
                 !.fired = popupRace.pc,
                 !.w1 = IF @ = "listening" THEN "caught" ELSE @,
                 !.w2 = IF @ = "listening" THEN "caught" ELSE @] IN
     popupRace' =
       IF (r.pc = "race" /\ popupRace.w1 = "listening")
            \/ (r.pc = "grace" /\ popupRace.w2 = "listening")
         THEN PopupTaken(r)
         ELSE r
  /\ UNCHANGED notPopupRace

\* The 5 s of the second wait pass without a popup: .catch(() => undefined)
GraceTimesOut ==
  /\ popupRace.pc = "grace"
  /\ popupRace' = RaceReturns([popupRace EXCEPT !.w2 = "timedOut"], FALSE)
  /\ UNCHANGED notPopupRace

\* popup.waitForLoadState('domcontentloaded', { timeout: 30_000 })
PopupLoads ==
  /\ popupRace.pc = "loadState"
  /\ \/ popupRace' = RaceReturns(popupRace, TRUE)
     \/ popupRace' = [popupRace EXCEPT !.pc = "threw",
                                       !.result = [t |-> "error", error |-> "waitForLoadState"]]
  /\ UNCHANGED notPopupRace

\* The second row is there and the cell to click is resolved.
CellResolved(routine, target) ==
  [pc |-> "cell", routine |-> routine, target |-> target, k1 |-> "none",
   k2 |-> "none", w1 |-> "none", w2 |-> "none", clicks |-> 0, fired |-> "no",
   popup |-> FALSE, result |-> [t |-> "none"]]

\* ------------------------------------------------- netlog.ts: redaction
\* Header names and JSON keys are sequences of one-character strings, so that
\* toLowerCase() and the regular expression of redactJson are computed on
\* the characters.
UpperLetters ==
  <<"A", "B", "C", "D", "E", "F", "G", "H", "I", "J", "K", "L", "M",
    "N", "O", "P", "Q", "R", "S", "T", "U", "V", "W", "X", "Y", "Z">>

LowerLetters ==
  <<"a", "b", "c", "d", "e", "f", "g", "h", "i", "j", "k", "l", "m",
    "n", "o", "p", "q", "r", "s", "t", "u", "v", "w", "x", "y", "z">>

\* String.prototype.toLowerCase on the ASCII names used here
ToLowerCase(s) ==
  [i \in 1..Len(s) |->
     IF \E j \in 1..Len(UpperLetters) : UpperLetters[j] = s[i]
     THEN LowerLetters[CHOOSE j \in 1..Len(UpperLetters) : UpperLetters[j] = s[i]]
     ELSE s[i]]

\* an unanchored regular expression of literal characters finds `sub` in `s`
HasSubstring(s, sub) ==
  \E i \in 1..(Len(s) - Len(sub) + 1) : SubSeq(s, i, i + Len(sub) - 1) = sub

hAuthorization == <<"a", "u", "t", "h", "o", "r", "i", "z", "a", "t", "i", "o", "n">>
hCookie == <<"c", "o", "o", "k", "i", "e">>
hSetCookie == <<"s", "e", "t", "-", "c", "o", "o", "k", "i", "e">>
hProxyAuthorization == <<"p", "r", "o", "x", "y", "-">> \o hAuthorization
hApiKey == <<"a", "p", "i", "-", "k", "e", "y">>
hXApiKey == <<"x", "-">> \o hApiKey

\* const blocked = new Set([...])
blocked == {hAuthorization, hCookie, hSetCookie, hProxyAuthorization, hXApiKey}

\* redactHeaders that compares the name as written
redactHeadersAsWritten(headers) ==
  [k \in {n \in DOMAIN headers : n \notin blocked} |-> headers[k]]

\* redactHeaders: a header is left out when its lower-cased name is blocked,
\* and copied under its own name otherwise.
redactHeaders(headers) ==
  [k \in {n \in DOMAIN headers : ToLowerCase(n) \notin blocked} |-> headers[k]]

\* JSON values after JSON.parse.  An object is the sequence of its entries
\* in Object.entries order; a path step is a key or an array index.
JNull == [t |-> "null"]
JStr(s) == [t |-> "string", s |-> s]
JNum(n) == [t |-> "number", n |-> n]
JArr(items) == [t |-> "array", items |-> items]
JObj(entries) == [t |-> "object", entries |-> entries]

Redacted == JStr("[redacted]")
Truncated == JStr("[truncated]")

MaxJsonDepth == 6
MaxArrayItems == 50

\* the alternatives of /(pass(word)?|token|secret|api[-_]?key|authorization|cookie)/i
SensitivePatterns ==
  { <<"p", "a", "s", "s">>,
    <<"t", "o", "k", "e", "n">>,
    <<"s", "e", "c", "r", "e", "t">>,
    <<"a", "p", "i", "k", "e", "y">>,
    hApiKey,
    <<"a", "p", "i", "_", "k", "e", "y">>,
    hAuthorization,
    hCookie }

\* the regular expression of redactJson tested on a key (flag i)
KeyMatches(k) == \E p \in SensitivePatterns : HasSubstring(ToLowerCase(k), p)

\* /^bearer\s+/i on the string values used here
StartsWithBearer(s) == s \in {"Bearer abc", "bearer abc"}

\* redactJson that goes through the entries of the outermost object only
redactJsonShallow(value, depth) ==
  IF value.t # "object" THEN value
  ELSE JObj([i \in 1..Len(value.entries) |->
              [k |-> value.entries[i].k,
               v |-> IF KeyMatches(value.entries[i].k) THEN Redacted
                     ELSE value.entries[i].v]])

RECURSIVE redactJson(_, _)
redactJson(value, depth) ==
  IF depth > MaxJsonDepth THEN Truncated
  ELSE IF value.t = "null" THEN value
  ELSE IF value.t = "string"
    THEN IF StartsWithBearer(value.s) THEN Redacted ELSE value
  ELSE IF value.t \notin {"array", "object"} THEN value
  ELSE IF value.t = "array"
    THEN LET kept == IF Len(value.items) > MaxArrayItems THEN MaxArrayItems
                     ELSE Len(value.items)
         IN JArr([i \in 1..kept |-> redactJson(value.items[i], depth + 1)])
  ELSE JObj([i \in 1..Len(value.entries) |->
              [k |-> value.entries[i].k,
               v |-> IF KeyMatches(value.entries[i].k) THEN Redacted
                     ELSE redactJson(value.entries[i].v, depth + 1)]])

\* ---- the header maps and bodies the capture is run on
HeaderNames ==
  { hAuthorization,
    <<"A", "u", "t", "h", "o", "r", "i", "z", "a", "t", "i", "o", "n">>,
    <<"C", "O", "O", "K", "I", "E">>,
    <<"S", "e", "t", "-", "C", "o", "o", "k", "i", "e">>,
    hProxyAuthorization,
    hXApiKey,
    <<"X", "-", "A", "P", "I", "-", "K", "e", "y">>,
    hApiKey,
    <<"A", "p", "i", "-", "K", "e", "y">>,
    <<"a", "c", "c", "e", "p", "t">>,
    <<"c", "o", "o", "k", "i", "e", "s">> }

HeaderMaps ==
  UNION { [names -> {"v1", "v2"}] :
            names \in {s \in SUBSET HeaderNames : Cardinality(s) <= 2} }

kData == <<"d", "a", "t", "a">>
kUser == <<"u", "s", "e", "r">>

BodyKeys ==
  { <<"p", "a", "s", "s", "w", "o", "r", "d">>,
    <<"P", "a", "s", "s", "w", "o", "r", "d">>,
    <<"a", "c", "c", "e", "s", "s", "T", "o", "k", "e", "n">>,
    <<"c", "l", "i", "e", "n", "t", "_", "s", "e", "c", "r", "e", "t">>,
    <<"a", "p", "i", "K", "e", "y">>,
    <<"k", "e", "y">>,
    hAuthorization,
    hCookie,
    kUser }

Secret == "hunter2"

\* { <k>: "hunter2", "user": "bob" }, or only the second entry when k is "user"
Leaf(k) ==
  IF k = kUser THEN JObj(<<[k |-> kUser, v |-> JStr(Secret)]>>)
  ELSE JObj(<<[k |-> k, v |-> JStr(Secret)], [k |-> kUser, v |-> JStr("bob")]>>)

\* v below d levels of { "data": ... } (shape "object"), of [ ... ] (shape
\* "array"), of both in turn (shape "mixed"), or of objects with
\* { "token": ... } outermost (shape "token")
RECURSIVE Nested(_, _, _)
Nested(v, shape, d) ==
  IF d = 0 THEN v
  ELSE LET inner == Nested(v, IF shape = "token" THEN "object" ELSE shape, d - 1)
       IN IF shape = "array" \/ (shape = "mixed" /\ d % 2 = 0)
          THEN JArr(<<inner>>)
          ELSE JObj(<<[k |-> IF shape = "token"
                              THEN <<"t", "o", "k", "e", "n">> ELSE kData,
                       v |-> inner]>>)

\* an array of n items whose last item is the leaf
LongArray(k, n) == JArr([i \in 1..n |-> IF i = n THEN Leaf(k) ELSE JNum(i)])

JsonBodies ==
  { Nested(Leaf(k), shape, d) :
      k \in BodyKeys, shape \in {"object", "array", "mixed", "token"},
      d \in 0..MaxNesting }
  \cup { LongArray(k, n) : k \in BodyKeys, n \in {MaxArrayItems, MaxArrayItems + 1} }
  \cup { JNull, JNum(1), JStr("Bearer abc"), JStr("bob"),
         JObj(<<[k |-> kData, v |-> JStr("bearer abc")]>>) }

\* onRequest (line 101) and onResponse (line 123) store redactHeaders(headers)
HeadersCaptured ==
  /\ redaction.pc = "headers"
  /\ redaction' = [pc |-> "headersStored", headers |-> redaction.headers,
                   stored |-> redactHeaders(redaction.headers)]
  /\ UNCHANGED notRedaction

\* onRequest (line 109) and onResponse (line 137) store redactJson(parsed)
BodyCaptured ==
  /\ redaction.pc = "body"
  /\ redaction' = [pc |-> "bodyStored", body |-> redaction.body,
                   stored |-> redactJson(redaction.body, 0)]
  /\ UNCHANGED notRedaction

\* ---- bodies as the text the handlers receive
\* the characters of the string values of the bodies
CharsOf(s) ==
  CASE s = Secret -> <<"h", "u", "n", "t", "e", "r", "2">>
    [] s = "bob" -> <<"b", "o", "b">>

Quote(chars) == <<"\"">> \o chars \o <<"\"">>

RECURSIVE Joined(_, _)
Joined(parts, separator) ==
  IF parts = << >> THEN << >>
  ELSE IF Len(parts) = 1 THEN parts[1]
  ELSE parts[1] \o <<separator>> \o Joined(Tail(parts), separator)

\* the compact JSON text of an object, an array or a string
RECURSIVE JsonText(_)
JsonText(v) ==
  CASE v.t = "string" -> Quote(CharsOf(v.s))
    [] v.t = "array" ->
         <<"[">> \o Joined([i \in 1..Len(v.items) |-> JsonText(v.items[i])], ",")
           \o <<"]">>
    [] v.t = "object" ->
         <<"{">>
           \o Joined([i \in 1..Len(v.entries) |->
                        Quote(v.entries[i].k) \o <<":">> \o JsonText(v.entries[i].v)],
                     ",")
           \o <<"}">>

\* the text of a form-encoded body: k1=v1&k2=v2
FormText(pairs) ==
  Joined([i \in 1..Len(pairs) |-> pairs[i].k \o <<"=">> \o CharsOf(pairs[i].v)], "&")

kPassword == <<"p", "a", "s", "s", "w", "o", "r", "d">>

JsonSent ==
  { Leaf(kPassword), Leaf(kUser), Nested(Leaf(kPassword), "object", 1),
    Nested(Leaf(<<"a", "c", "c", "e", "s", "s", "T", "o", "k", "e", "n">>), "array", 1) }

FormsSent ==
  { <<[k |-> kUser, v |-> "bob"], [k |-> kPassword, v |-> Secret]>>,
    <<[k |-> <<"t", "o", "k", "e", "n">>, v |-> Secret]>>,
    <<[k |-> kUser, v |-> "bob"]>> }

\* The bodies sent: a JSON value or the pairs of a form, with their text.
BodiesSent ==
  { [kind |-> "json", value |-> v, text |-> JsonText(v)] : v \in JsonSent }
    \cup { [kind |-> "form", pairs |-> p, text |-> FormText(p)] : p \in FormsSent }

\* Line 79: options.maxBodyChars, 50 000 when it is not given.
DefaultMaxBodyChars == 50000
SmallBodyChars == 34
BodyCharLimits == {SmallBodyChars, DefaultMaxBodyChars}

\* Line 74: the twelve characters of the mark appended to a clipped text.
ClipMark ==
  <<"u00e2", "u20ac", "u00a6", "[", "c", "l", "i", "p", "p", "e", "d", "]">>

\* Lines 72-75.
clipText(text, maxChars) ==
  IF Len(text) <= maxChars THEN text
  ELSE SubSeq(text, 1, IF maxChars - 12 > 0 THEN maxChars - 12 ELSE 0) \o ClipMark

\* Lines 64-70: JSON.parse of the texts used here.  The text of one of the
\* JSON values parses to that value; a form-encoded text and a text cut short
\* and ending in the clip mark are no JSON and give undefined.
tryParseJson(text) ==
  IF \E v \in JsonSent : JsonText(v) = text
  THEN CHOOSE v \in JsonSent : JsonText(v) = text
  ELSE Undefined

\* What is stored for a body: a redacted JSON value or a text.
StoredJson(v) == [as |-> "json", value |-> v]
StoredText(text) == [as |-> "text", text |-> text]
NothingStored == [as |-> "nothing"]

\* Lines 106-111 of onRequest: entry.requestPostData.
PostDataCaptured ==
  /\ redaction.pc = "postData"
  /\ LET postData == redaction.sent.text
         maybeJson == tryParseJson(postData)
     IN redaction' =
          [redaction EXCEPT
             !.pc = "textStored",
             !.stored = IF postData = << >> THEN NothingStored
                        ELSE IF maybeJson # Undefined
                          THEN StoredJson(redactJson(maybeJson, 0))
                        ELSE StoredText(clipText(postData, redaction.maxBodyChars))]
  /\ UNCHANGED notRedaction

\* Lines 126-140 of onResponse: entry.responseBody; the body is read only
\* with captureBodies set and a JSON or text content type, and a body that
\* cannot be read is left out.
ResponseBodyCaptured ==
  /\ redaction.pc = "responseBody"
  /\ \E readable \in BOOLEAN :
       LET clipped == clipText(redaction.sent.text, redaction.maxBodyChars)
           parsed == tryParseJson(clipped)
       IN redaction' =
            [redaction EXCEPT
               !.pc = "textStored",
               !.stored = IF ~redaction.captureBodies \/ ~redaction.looksTexty
                             \/ ~readable
                          THEN NothingStored
                          ELSE IF parsed # Undefined
                            THEN StoredJson(redactJson(parsed, 0))
                          ELSE StoredText(clipped)]
  /\ UNCHANGED notRedaction

\* ------------------------------------- netlog.ts: installNetworkCapture
\* The page sends up to MaxRequests requests; each is answered or fails
\* once.  The invoices scenario installs the capture before its try block
\* and stops it in the finally block.
Requests == 1..MaxRequests
ResourceTypes == {"xhr", "fetch", "document"}
InvoiceSteps == <<"login", "search", "click", "validate">>

\* shouldInclude(req)
shouldInclude(rt, urlIncludeRegex, urlMatches) ==
  IF rt # "xhr" /\ rt # "fetch" THEN FALSE
  ELSE IF urlIncludeRegex /\ ~urlMatches THEN FALSE
  ELSE TRUE

\* byRequest.get(req): the index in `entries` of the entry of req, 0 if none
ByRequest(entries, req) ==
  IF \E i \in 1..Len(entries) : entries[i].req = req
  THEN CHOOSE i \in 1..Len(entries) : entries[i].req = req
  ELSE 0

\* page.on('request', ...), page.on('response', ...), page.on('requestfailed', ...)
Listeners == {"request", "response", "requestfailed"}

\* the state right after installNetworkCapture returned (or was not called)
NetInstalled(captureNetwork, captureBodies, urlIncludeRegex) ==
  [pc |-> "try", step |-> 1, exit |-> "none",
   installed |-> captureNetwork,
   captureBodies |-> captureBodies, urlIncludeRegex |-> urlIncludeRegex,
   listeners |-> IF captureNetwork THEN Listeners ELSE {},
   nextId |-> 1, entries |-> <<>>,
   page |-> [r \in Requests |-> "idle"],
   reading |-> {},
   stop |-> "notCalled", stopCalls |-> 0,
   json |-> <<>>, file |-> [written |-> FALSE, content |-> <<>>]]

\* the page emits 'request'; onRequest
PageRequest(req, rt, urlMatches) ==
  /\ netlog.pc # "unused"
  /\ netlog.page[req] = "idle"
  /\ netlog' =
       IF "request" \in netlog.listeners
          /\ shouldInclude(rt, netlog.urlIncludeRegex, urlMatches)
       THEN [netlog EXCEPT
               !.page[req] = "sent",
               !.entries = Append(@, [id |-> netlog.nextId, req |-> req,
                                      resourceType |-> rt,
                                      responseStatus |-> FALSE,
                                      failure |-> FALSE,
                                      responseBody |-> FALSE]),
               !.nextId = @ + 1]
       ELSE [netlog EXCEPT !.page[req] = "sent"]
  /\ UNCHANGED notNetlog

\* the page emits 'response'; onResponse up to `await res.text()`
PageResponse(req, looksTexty) ==
  /\ netlog.pc # "unused"
  /\ netlog.page[req] = "sent"
  /\ LET i == ByRequest(netlog.entries, req) IN
       netlog' =
         IF "response" \in netlog.listeners /\ i # 0
         THEN [netlog EXCEPT
                 !.page[req] = "responded",
                 !.entries[i].responseStatus = TRUE,
                 !.reading = IF netlog.captureBodies /\ looksTexty
                             THEN @ \cup {req} ELSE @]
         ELSE [netlog EXCEPT !.page[req] = "responded"]
  /\ UNCHANGED notNetlog

\* onResponse after `await res.text()`: the body is stored, or the read
\* was rejected and the catch block ignores it
BodyRead(req, ok) ==
  /\ netlog.pc # "unused"
  /\ req \in netlog.reading
  /\ LET i == ByRequest(netlog.entries, req) IN
       netlog' = [netlog EXCEPT
                    !.reading = @ \ {req},
                    !.entries[i].responseBody = IF ok THEN TRUE ELSE @]
  /\ UNCHANGED notNetlog

\* the page emits 'requestfailed'; onRequestFailed
PageRequestFailed(req) ==
  /\ netlog.pc # "unused"
  /\ netlog.page[req] = "sent"
  /\ LET i == ByRequest(netlog.entries, req) IN
       netlog' =
         IF "requestfailed" \in netlog.listeners /\ i # 0
         THEN [netlog EXCEPT !.page[req] = "failed",
                             !.entries[i].failure = TRUE]
         ELSE [netlog EXCEPT !.page[req] = "failed"]
  /\ UNCHANGED notNetlog

\* the try block that never reaches the finally block on a skip
TryStepSkipLeaves(how) ==
  /\ netlog.pc = "try"
  /\ how = "skip" => InvoiceSteps[netlog.step] = "click"
  /\ netlog' =
       IF how = "ok" /\ netlog.step < Len(InvoiceSteps)
       THEN [netlog EXCEPT !.step = @ + 1]
       ELSE [netlog EXCEPT
               !.pc = IF how = "skip" THEN "done" ELSE "finally",
               !.exit = CASE how = "ok" -> "pass"
                          [] how = "throw" -> "fail"
                          [] OTHER -> "skip"]
  /\ UNCHANGED notNetlog

\* one step of the try block of the invoices test: it completes, it throws,
\* or (the click step with an empty grid) test.skip throws
TryStep(how) ==
  /\ netlog.pc = "try"
  /\ how = "skip" => InvoiceSteps[netlog.step] = "click"
  /\ netlog' =
       IF how = "ok" /\ netlog.step < Len(InvoiceSteps)
       THEN [netlog EXCEPT !.step = @ + 1]
       ELSE [netlog EXCEPT
               !.pc = "finally",
               !.exit = CASE how = "ok" -> "pass"
                          [] how = "throw" -> "fail"
                          [] OTHER -> "skip"]
  /\ UNCHANGED notNetlog

\* finally { if (net) await net.stop(); }: stop() runs up to its first await
\* (the three page.off calls and JSON.stringify(entries))
FinallyRuns ==
  /\ netlog.pc = "finally"
  /\ netlog' =
       IF netlog.installed
       THEN [netlog EXCEPT
               !.pc = "stopping",
               !.stop = "writing", !.stopCalls = @ + 1,
               !.listeners = @ \ Listeners,
               !.json = netlog.entries]
       ELSE [netlog EXCEPT !.pc = "done"]
  /\ UNCHANGED notNetlog

\* stop() from fs.writeFile to its return; a rejected write or attach makes
\* stop() and the test reject
StopSettles(ok) ==
  /\ netlog.pc = "stopping"
  /\ netlog' = [netlog EXCEPT
                  !.pc = "done",
                  !.stop = IF ok THEN "returned" ELSE "threw",
                  !.file = IF ok THEN [written |-> TRUE, content |-> netlog.json]
                           ELSE @]
  /\ UNCHANGED notNetlog

\* --------------------------------------- scripts/mystapp-perf-summary.mjs
\* The output directory holds up to MaxFiles files, named by their path
\* 1..MaxFiles.  A file is absent, is not called timings.json ("other"), or
\* is a timings.json that holds JSON ("valid"), text that JSON.parse rejects
\* ("malformed"), or cannot be read ("unreadable").
FileKinds == {"absent", "other", "valid", "malformed", "unreadable"}
Paths == 1..MaxFiles

\* the timings.json files in the order in which walk() yields them
RECURSIVE Walked(_, _, _)
Walked(dir, ascending, p) ==
  IF p > MaxFiles THEN <<>>
  ELSE LET rest == Walked(dir, ascending, p + 1)
           here == IF dir[p] \in {"valid", "malformed", "unreadable"}
                   THEN <<p>> ELSE <<>>
       IN IF ascending THEN here \o rest ELSE rest \o here

PerfStarts(dir, ascending) ==
  [pc |-> "start", dir |-> dir, ascending |-> ascending,
   timingFiles |-> <<>>, i |-> 0, rows |-> <<>>,
   exitCode |-> -1, report |-> [written |-> FALSE, rows |-> <<>>]]

\* lines 42-52: the files are collected and sorted; none found: exit(1)
FilesCollected ==
  /\ perf.pc = "start"
  /\ LET found == SortNumbers(Walked(perf.dir, perf.ascending, 1)) IN
       perf' = IF Len(found) = 0
               THEN [perf EXCEPT !.pc = "exited", !.exitCode = 1]
               ELSE [perf EXCEPT !.pc = "reading", !.timingFiles = found, !.i = 1]
  /\ UNCHANGED notPerf

\* the loop body that lets a JSON.parse error escape
FileReadParseAborts ==
  /\ perf.pc = "reading"
  /\ LET file == perf.timingFiles[perf.i]
         last == perf.i = Len(perf.timingFiles)
     IN perf' =
          IF perf.dir[file] # "valid"
          THEN [perf EXCEPT !.pc = "exited", !.exitCode = 1]
          ELSE [perf EXCEPT !.rows = Append(@, file),
                            !.i = @ + 1,
                            !.pc = IF last THEN "writing" ELSE @]
  /\ UNCHANGED notPerf

\* lines 55-69, one turn of the loop: readFile is awaited outside the try
\* block, so its rejection ends the script; a JSON.parse error is caught
\* and the file is passed over; a parsed file gives one row
FileRead ==
  /\ perf.pc = "reading"
  /\ LET file == perf.timingFiles[perf.i]
         last == perf.i = Len(perf.timingFiles)
     IN perf' =
          IF perf.dir[file] = "unreadable"
          THEN [perf EXCEPT !.pc = "exited", !.exitCode = 1]
          ELSE [perf EXCEPT
                  !.rows = IF perf.dir[file] = "valid" THEN Append(@, file) ELSE @,
                  !.i = @ + 1,
                  !.pc = IF last THEN "writing" ELSE @]
  /\ UNCHANGED notPerf

\* lines 71-130: the report is built from the rows and written
ReportWritten(ok) ==
  /\ perf.pc = "writing"
  /\ perf' = IF ok
             THEN [perf EXCEPT !.pc = "exited", !.exitCode = 0,
                               !.report = [written |-> TRUE, rows |-> perf.rows]]
             ELSE [perf EXCEPT !.pc = "exited", !.exitCode = 1]
  /\ UNCHANGED notPerf

\* ------------------------- service-vehicles.spec.ts: the timed scenario
StepLabels ==
  <<"login", "goto_service_vehicles", "fill_start_date",
    "refresh_to_grid_ready", "open_second_record">>

\* what the function handed to measureMs can do at each step: throw, or
\* return one of these results
StepResults(label) ==
  CASE label = "refresh_to_grid_ready" -> {"data", "empty", "timeout"}
    [] label = "open_second_record" -> {"opened", "not_opened"}
    [] OTHER -> {"ok"}

\* measureMs followed by timings[label] = ms, with the entry written even
\* when fn() threw
measureMsRecordsAlways(record, label, returned, ms) ==
  Append(record, [label |-> label, ms |-> ms])

\* measureMs followed by timings[label] = ms: `await fn()` throws before
\* anything is returned, so the assignment after it is not reached
measureMs(record, label, returned, ms) ==
  IF returned THEN Append(record, [label |-> label, ms |-> ms]) ELSE record

ScenarioStarts ==
  [pc |-> "measure", step |-> 1, timings |-> <<>>, completed |-> {},
   results |-> <<>>, exit |-> "none",
   file |-> [written |-> FALSE, content |-> <<>>]]

\* `const x = await measureMs(label, fn); timings[x.label] = x.ms;`
StepMeasured(returned, result, ms) ==
  /\ scenario.pc = "measure"
  /\ LET label == StepLabels[scenario.step] IN
       /\ result \in StepResults(label)
       /\ scenario' =
            [scenario EXCEPT
               !.timings = measureMs(@, label, returned, ms),
               !.completed = IF returned THEN @ \cup {label} ELSE @,
               !.results = IF returned THEN Append(@, result) ELSE @,
               !.pc = IF returned THEN "between" ELSE "done",
               !.exit = IF returned THEN @ ELSE "fail"]
  /\ UNCHANGED notScenario

\* the statements between two measured steps: the expect() calls after
\* goto_service_vehicles and fill_start_date can throw; after
\* open_second_record the test is skipped when nothing was opened
BetweenSteps(ok) ==
  /\ scenario.pc = "between"
  /\ ~ok => StepLabels[scenario.step] \in {"goto_service_vehicles", "fill_start_date"}
  /\ scenario' =
       IF ~ok THEN [scenario EXCEPT !.pc = "done", !.exit = "fail"]
       ELSE IF scenario.step < Len(StepLabels)
         THEN [scenario EXCEPT !.pc = "measure", !.step = @ + 1]
       ELSE IF scenario.results[scenario.step] = "not_opened"
         THEN [scenario EXCEPT !.pc = "done", !.exit = "skip"]
       ELSE [scenario EXCEPT !.pc = "writing"]
  /\ UNCHANGED notScenario

\* lines 312-327: timings.json is attached and written to the output
\* directory; a rejected attach or write fails the test
TimingsWritten(ok) ==
  /\ scenario.pc = "writing"
  /\ scenario' =
       IF ok
       THEN [scenario EXCEPT !.pc = "done", !.exit = "pass",
                             !.file = [written |-> TRUE,
                                       content |-> scenario.timings]]
       ELSE [scenario EXCEPT !.pc = "done", !.exit = "fail"]
  /\ UNCHANGED notScenario

\* ------------------------------------------------- helpers left unused
Unused == [pc |-> "unused"]

\* The helper records of a run that does not look into the helpers named
\* in `used`.
AuxIdle(used) ==
  /\ "grid" \notin used => grid = Unused
  /\ "popupRace" \notin used => popupRace = Unused
  /\ "redaction" \notin used => redaction = Unused
  /\ "netlog" \notin used => netlog = Unused
  /\ "perf" \notin used => perf = Unused
  /\ "scenario" \notin used => scenario = Unused

\* --------------------------------------------------------------- behaviour
InitPool ==
  /\ next = 0
  /\ pc = [w \in Workers |-> "idle"]
  /\ cur = [w \in Workers |-> -1]
  /\ ctxOf = [w \in Workers |-> 0]
  /\ held = [w \in Workers |-> 0]
  /\ timings = << >>
  /\ apiTimings = << >>
  /\ apiStatuses = << >>
  /\ results = << >>
  /\ stateFiles = {}
  /\ openCtx = {}
  /\ ctxCount = 0
  /\ ctxUse = {}
  /\ claimLog = << >>
  /\ doneOrder = << >>

\* The credential variables of a run that has its users already.
CredIdle ==
  /\ credEnv = [MYSTAPP_PASSWORD |-> Undefined, MYSTAPP_USERS |-> Undefined,
                MYSTAPP_USER_PREFIX |-> Undefined, MYSTAPP_USER |-> Undefined,
                MYSTAPP_USERNAME |-> Undefined,
                MYSTAPP_REUSE_SINGLE_USER |-> Undefined,
                MYSTAPP_BASE_URL |-> Undefined]
  /\ localCfg = Undefined
  /\ count = Num(0)
  /\ csvNames = << >>
  /\ users = [t |-> "resolved"]

Init ==
  /\ CredIdle
  /\ LoginIdle
  /\ DateIdle
  /\ AuxIdle({})
  /\ mode \in {"stress", "setup"}
  /\ nUsers \in 0..MaxUsers
  /\ concurrency \in {NaN} \cup {Num(c) : c \in 0..MaxConcurrency}
  /\ env \in IF mode = "stress" THEN PoolEnvs ELSE {NoThresholds}
  /\ phase = "start"
  /\ InitPool
  /\ outcome = "running"
  /\ stats = NoStats

Next ==
  \/ StartPool
  \/ \E w \in Workers : WorkerStep(w)
  \/ StressSummary
  \/ SetupSummary

Spec == Init /\ [][Next]_vars

\* --------------------------------------------------- the summary on its own
\* The duration lists the summary is applied to: every short list, lists
\* long enough for the percentile indices to part from the last index, and
\* the fixed vector 100..500 (sorted and shuffled).
Ramp(n) == [i \in 1..n |-> n + 1 - i]

RampLengths == {10, 11, 20, 21, 100, 101}

FixedVector == <<100, 200, 300, 400, 500>>

ShuffledVector == <<300, 100, 500, 200, 400>>

StatsInputs ==
  UNION {[1..n -> 1..MaxValue] : n \in 0..MaxLen}
    \cup {Ramp(n) : n \in RampLengths}
    \cup {FixedVector, ShuffledVector}

\* The state in which one worker has logged in Len(list) users one after the
\* other, taking list[i] ms for the i-th, and has returned.
InitStats ==
  \E list \in StatsInputs :
    LET n == Len(list) IN
    /\ mode = "stress"
    /\ nUsers = n
    /\ concurrency = Num(1)
    /\ env \in ThresholdEnvs
    /\ phase = "pool"
    /\ next = n + 1
    /\ pc = <<"returned">>
    /\ cur = <<n>>
    /\ ctxOf = <<0>>
    /\ held = <<0>>
    /\ timings = list
    /\ apiTimings = << >>
    /\ apiStatuses = << >>
    /\ results = << >>
    /\ stateFiles = {}
    /\ openCtx = {}
    /\ ctxCount = n
    /\ ctxUse = {<<i, i - 1>> : i \in 1..n}
    /\ claimLog = [i \in 1..(n + 1) |-> <<1, i - 1>>]
    /\ doneOrder = [i \in 1..n |-> i - 1]
    /\ outcome = "running"
    /\ stats = NoStats
    /\ CredIdle
    /\ LoginIdle
    /\ DateIdle
    /\ AuxIdle({})

NextStats == StressSummary

SpecStats == InitStats /\ [][NextStats]_vars

\* ------------------------------------------- the credential resolver alone
Letters == <<"a", "b", "c", "d", "e", "f">>

NameOf(i) == <<Letters[i]>>

\* The lists of names MYSTAPP_USERS is written from: a, b, c, ... up to
\* MaxNames names, and the longest one in reverse order.
NameLists ==
  {[i \in 1..k |-> NameOf(i)] : k \in 0..MaxNames}
    \cup {[i \in 1..MaxNames |-> NameOf(MaxNames + 1 - i)]}

RECURSIVE Join(_, _)
Join(items, sep) ==
  IF items = << >> THEN << >>
  ELSE IF Len(items) = 1 THEN items[1]
  ELSE items[1] \o sep \o Join(Tail(items), sep)

\* Three ways of writing a list of names as a csv: "a,b", " a , b " and
\* "a, ,b," (blank entries between and after the names).
CsvStyles == {"plain", "spaced", "gaps"}

CsvOf(names, style) ==
  CASE style = "plain" -> Join(names, <<",">>)
    [] style = "spaced" -> <<" ">> \o Join(names, <<" ", ",", " ">>) \o <<" ">>
    [] style = "gaps" -> Join(names, <<",", " ", ",">>) \o <<",">>

LocalObject(password, user, list, prefix) ==
  [t |-> "object", password |-> password, user |-> user, users |-> list,
   userPrefix |-> prefix, baseURL |-> Undefined]

LocalCfgs ==
  { Undefined,
    LocalObject(Undefined, Undefined, Undefined, Undefined),
    LocalObject(Str(<<"l", "p">>), Undefined,
                [t |-> "array", items |-> <<<<"x">>, <<" ", "y", " ">>, << >>>>],
                Undefined),
    LocalObject(Str(<<"l", "p">>), Str(<<"l", "u">>), Undefined, Undefined),
    LocalObject(Undefined, Undefined, Undefined, Str(<<"l", "x">>)) }

\* The state of a scenario that is about to resolve its users.
InitCreds ==
  /\ \E names \in NameLists, style \in CsvStyles \cup {"unset"} :
       /\ style = "unset" => names = << >>
       /\ csvNames = names
       /\ \E pw \in {Undefined, Str(<<"p", "w">>), Str(<<" ", "p", "w", " ">>)},
             prefix \in {Undefined, Str(<<"u", "s", "e", "r">>)},
             user \in {Undefined, EmptyStr, Str(<<" ", "u", "1">>)},
             username \in {Undefined, Str(<<"u", "2">>)},
             reuse \in {Undefined, Str(<<"1">>), Str(<<" ", "1">>), Str(<<"0">>)},
             base \in {Undefined, Str(<<" ">>)} :
           credEnv =
             [MYSTAPP_PASSWORD |-> pw,
              MYSTAPP_USERS |->
                IF style = "unset" THEN Undefined ELSE Str(CsvOf(names, style)),
              MYSTAPP_USER_PREFIX |-> prefix,
              MYSTAPP_USER |-> user,
              MYSTAPP_USERNAME |-> username,
              MYSTAPP_REUSE_SINGLE_USER |-> reuse,
              MYSTAPP_BASE_URL |-> base]
  /\ localCfg \in LocalCfgs
  /\ mode \in Callers
  /\ count \in CallerCounts(mode)
  /\ users = [t |-> "none"]
  /\ LoginIdle
  /\ DateIdle
  /\ AuxIdle({})
  /\ nUsers = 0
  /\ concurrency = Num(1)
  /\ env = NoThresholds
  /\ phase = "start"
  /\ InitPool
  /\ outcome = "running"
  /\ stats = NoStats

NextCreds == RequireUsers

SpecCreds == InitCreds /\ [][NextCreds]_vars

\* ------------------------------------------------------ mystappLogin alone
\* A fresh page (about:blank) on which mystappLogin is about to be called.
InitLogin ==
  /\ loginEnv \in LoginEnvs
  /\ lpc = "idle"
  /\ LoginFresh
  /\ CredIdle
  /\ DateIdle
  /\ AuxIdle({})
  /\ mode = "stress"
  /\ nUsers = 0
  /\ concurrency = Num(1)
  /\ env = NoThresholds
  /\ phase = "start"
  /\ InitPool
  /\ outcome = "running"
  /\ stats = NoStats

NextLogin ==
  \/ LoginStarts
  \/ ApiWaitSettles
  \/ Navigated
  \/ LoginReturnsMetrics
  \/ RenderPoll
  \/ \E field \in {"username", "password", "submit"} : FieldResolved(field)
  \/ UsernameFilled
  \/ SecondPasswordResolved
  \/ PasswordFilled
  \/ Submitted
  \/ LeftLoginPoll

SpecLogin == InitLogin /\ [][NextLogin]_vars

\* ----------------------------------------------------- fillDateInput alone
\* A date input of some type, a raw date and a format setting, before the
\* call of fillDateInput.
InitDate ==
  /\ dateEnv \in DateEnvs
  /\ rawDate \in RawDates
  /\ inputType \in InputTypes
  /\ dpc = "idle"
  /\ DateFresh
  /\ AuxIdle({})
  /\ CredIdle
  /\ LoginIdle
  /\ mode = "stress"
  /\ nUsers = 0
  /\ concurrency = Num(1)
  /\ env = NoThresholds
  /\ phase = "start"
  /\ InitPool
  /\ outcome = "running"
  /\ stats = NoStats

NextDate ==
  \/ DateStarts
  \/ \E k \in 1..Len(AttemptTags) : Attempt(k)
  \/ FinalRead

SpecDate == InitDate /\ [][NextDate]_vars

\* The variables of the login pool, the resolver, mystappLogin and
\* fillDateInput in a run that looks at none of them.
CoreIdle ==
  /\ CredIdle
  /\ LoginIdle
  /\ DateIdle
  /\ mode = "stress"
  /\ nUsers = 0
  /\ concurrency = Num(1)
  /\ env = NoThresholds
  /\ phase = "start"
  /\ InitPool
  /\ outcome = "running"
  /\ stats = NoStats

\* ------------------------------------------------------ a grid wait alone
\* The table is visible and one of the four routines starts to wait.
InitGrid ==
  /\ \E routine \in Routines, allowEmpty \in BOOLEAN :
       /\ routine = "waitForServiceVehiclesGridReady" => ~allowEmpty
       /\ grid = GridStarts(routine, allowEmpty)
  /\ AuxIdle({"grid"})
  /\ CoreIdle

NextGrid ==
  \/ GridPoll
  \/ GridDeadline
  \/ GridRecount

SpecGrid == InitGrid /\ [][NextGrid]_vars

\* Every round of the loop sleeps 250 ms and the counts return: the wait
\* moves on as long as it has a step to take.
SpecGridFair == SpecGrid /\ WF_vars(NextGrid)

\* ---------------------------------------------------- the popup race alone
\* A grid with its second row, a header that names the column or not, and a
\* cell selector set or not.
InitPopupRace ==
  /\ \E routine \in ClickRoutines, selectorSet \in BOOLEAN,
        colIndex \in -1..MaxCols, cellCount \in 0..MaxCols :
       popupRace =
         CellResolved(routine, ResolvedCell(routine, selectorSet, colIndex, cellCount))
  /\ AuxIdle({"popupRace"})
  /\ CoreIdle

NextPopupRace ==
  \/ RaceEntered
  \/ \E c \in 1..2 : ClickPerformed(c)
  \/ \E c \in 1..2 : ClickSettles(c)
  \/ PopupWaitTimesOut
  \/ PopupOpens
  \/ GraceTimesOut
  \/ PopupLoads

SpecPopupRace == InitPopupRace /\ [][NextPopupRace]_vars


InitRedaction ==
  /\ \/ \E h \in HeaderMaps : redaction = [pc |-> "headers", headers |-> h]
     \/ \E b \in JsonBodies : redaction = [pc |-> "body", body |-> b]
     \/ \E b \in BodiesSent, m \in BodyCharLimits :
          redaction = [pc |-> "postData", sent |-> b, maxBodyChars |-> m,
                       captureBodies |-> FALSE, looksTexty |-> FALSE,
                       stored |-> NothingStored]
     \/ \E b \in BodiesSent, m \in BodyCharLimits, c \in BOOLEAN, texty \in BOOLEAN :
          redaction = [pc |-> "responseBody", sent |-> b, maxBodyChars |-> m,
                       captureBodies |-> c, looksTexty |-> texty,
                       stored |-> NothingStored]
  /\ AuxIdle({"redaction"})
  /\ CoreIdle

NextRedaction ==
  \/ HeadersCaptured
  \/ BodyCaptured
  \/ PostDataCaptured
  \/ ResponseBodyCaptured

SpecRedaction == InitRedaction /\ [][NextRedaction]_vars

InitNetlog ==
  /\ \E captureNetwork \in BOOLEAN, captureBodies \in BOOLEAN,
        urlIncludeRegex \in BOOLEAN :
       netlog = NetInstalled(captureNetwork, captureBodies, urlIncludeRegex)
  /\ AuxIdle({"netlog"})
  /\ CoreIdle

NextNetlog ==
  \/ \E req \in Requests, rt \in ResourceTypes, urlMatches \in BOOLEAN :
       PageRequest(req, rt, urlMatches)
  \/ \E req \in Requests, looksTexty \in BOOLEAN : PageResponse(req, looksTexty)
  \/ \E req \in Requests, ok \in BOOLEAN : BodyRead(req, ok)
  \/ \E req \in Requests : PageRequestFailed(req)
  \/ \E how \in {"ok", "throw", "skip"} : TryStep(how)
  \/ FinallyRuns
  \/ \E ok \in BOOLEAN : StopSettles(ok)

SpecNetlog == InitNetlog /\ [][NextNetlog]_vars

InitPerf ==
  /\ \E dir \in [Paths -> FileKinds], ascending \in BOOLEAN :
       perf = PerfStarts(dir, ascending)
  /\ AuxIdle({"perf"})
  /\ CoreIdle

NextPerf ==
  \/ FilesCollected
  \/ FileRead
  \/ \E ok \in BOOLEAN : ReportWritten(ok)

SpecPerf == InitPerf /\ [][NextPerf]_vars

InitScenario ==
  /\ scenario = ScenarioStarts
  /\ AuxIdle({"scenario"})
  /\ CoreIdle

NextScenario ==
  \/ \E returned \in BOOLEAN, result \in {"ok", "data", "empty", "timeout", "opened", "not_opened"},
        ms \in 0..MaxDuration :
       StepMeasured(returned, result, ms)
  \/ \E ok \in BOOLEAN : BetweenSteps(ok)
  \/ \E ok \in BOOLEAN : TimingsWritten(ok)

SpecScenario == InitScenario /\ [][NextScenario]_vars

\* ------------------------------------------------------------- scheduling
\* The event loop runs every continuation that is ready, and every awaited
\* call settles: each enabled step of the test body and of each worker is
\* eventually taken.
MaxWorkers == IF MaxConcurrency >= 1 THEN MaxConcurrency ELSE 1

SpecFair ==
  /\ Init
  /\ [][Next]_vars
  /\ WF_vars(StartPool)
  /\ WF_vars(StressSummary)
  /\ WF_vars(SetupSummary)
  /\ \A w \in 1..MaxWorkers : WF_vars(w \in Workers /\ WorkerStep(w))

\* ----------------------------------------------------------------- claims
Recorded == IF mode = "stress" THEN timings ELSE results

ClaimsOf(i) == {k \in 1..Len(claimLog) : claimLog[k][2] = i}

Completions(i) == {k \in 1..Len(doneOrder) : doneOrder[k] = i}

NoneRejected == \A w \in Workers : pc[w] # "rejected"

\* C1: for N >= 0 credentials and C >= 1 workers, when no attempt throws the
\* finished pool has recorded exactly N durations, and every index in [0, N)
\* was claimed by exactly one worker and completed once; at no moment has an
\* index been claimed twice.
C1_EachIndexExactlyOnce ==
  (concurrency.t = "number" /\ concurrency.v >= 1) =>
    /\ \A k1, k2 \in 1..Len(claimLog) :
         claimLog[k1][2] = claimLog[k2][2] => k1 = k2
    /\ (phase # "start" /\ AllReturned) =>
         /\ Len(Recorded) = nUsers
         /\ \A i \in 0..(nUsers - 1) :
              /\ Cardinality(ClaimsOf(i)) = 1
              /\ Cardinality(Completions(i)) = 1
         /\ \A k \in 1..Len(doneOrder) : doneOrder[k] \in 0..(nUsers - 1)

\* C1 witness: two workers have shared three users and the pool has finished.
C1_Witness ==
  /\ nUsers = 3
  /\ concurrency = Num(2)
  /\ phase = "pool"
  /\ AllReturned
  /\ Len(Recorded) = 3
  /\ \E k1, k2 \in 1..Len(claimLog) :
       /\ claimLog[k1][1] # claimLog[k2][1]
       /\ claimLog[k1][2] < nUsers
       /\ claimLog[k2][2] < nUsers

MaxOfOneAnd(c) == IF c.t = "number" /\ c.v > 1 THEN c.v ELSE 1

\* C2: at every moment at most max(1, C) contexts are open, no two workers
\* hold the same context, and a context is only ever used by the one attempt
\* it was created for.
C2_BoundedAndIsolated ==
  /\ Cardinality(openCtx) <= MaxOfOneAnd(concurrency)
  /\ Cardinality({w \in Workers : pc[w] \in
        {"newContext", "newPage", "import", "login", "pageClose",
         "storageState", "close"}}) <= MaxOfOneAnd(concurrency)
  /\ \A w1, w2 \in Workers :
       (w1 # w2 /\ ctxOf[w1] # 0) => ctxOf[w1] # ctxOf[w2]
  /\ \A u1, u2 \in ctxUse : u1[1] = u2[1] => u1[2] = u2[2]

\* C2 witness: with C = 2 both workers have a login running in a context of
\* their own.
C2_Witness ==
  /\ concurrency = Num(2)
  /\ Cardinality(openCtx) = 2
  /\ \A w \in Workers : pc[w] = "login"

\* C3: the cursor never decreases, and the indices read from it, taken over
\* all workers in the order of the reads, are 0, 1, 2, ...: every read is
\* followed at once by the increment.
C3_ClaimsStrictlyIncreasing ==
  /\ [][next' >= next]_vars
  /\ [](/\ next = Len(claimLog)
        /\ \A k \in 1..Len(claimLog) : claimLog[k][2] = k - 1)

\* C3 witness: the completion order is not the claim order (index 1 was
\* appended before index 0).
C3_Witness ==
  /\ Len(doneOrder) >= 2
  /\ doneOrder[1] = 1
  /\ doneOrder[2] = 0

\* C4: a stress run passes only with exactly N durations recorded; once an
\* attempt has thrown the run has failed and never passes.
C4_PassOnlyWithAllOutcomes ==
  mode = "stress" =>
    /\ outcome = "passed" => Len(timings) = nUsers
    /\ (\E w \in Workers : pc[w] = "rejected") => outcome = "fail_pool"
    /\ outcome = "fail_pool" => (\E w \in Workers : pc[w] = "rejected")

\* C4 witness: one attempt has thrown after another had been recorded; the
\* run has failed with fewer than N durations.
C4_Witness ==
  /\ mode = "stress"
  /\ outcome = "fail_pool"
  /\ Len(timings) >= 1
  /\ Len(timings) < nUsers

FirstClaimOf(w) ==
  LET ks == {k \in 1..Len(claimLog) : claimLog[k][1] = w} IN
  claimLog[CHOOSE k \in ks : \A j \in ks : k <= j][2]

C5_Safety ==
  \A w \in Workers :
    /\ pc[w] = "returned" =>
         /\ cur[w] >= nUsers
         /\ \A i \in 0..(nUsers - 1) : ClaimsOf(i) # {}
    /\ (pc[w] # "idle" /\ FirstClaimOf(w) >= nUsers) =>
         /\ pc[w] = "returned"
         /\ ctxOf[w] = 0
         /\ Cardinality({k \in 1..Len(claimLog) : claimLog[k][1] = w}) = 1
         /\ \A u \in ctxUse : u[2] # FirstClaimOf(w)

IsAscending(arr) == \A i \in 1..(Len(arr) - 1) : arr[i] <= arr[i + 1]

Occurrences(arr, x) == Cardinality({i \in 1..Len(arr) : arr[i] = x})

SameElements(a, b) ==
  /\ Len(a) = Len(b)
  /\ \A i \in 1..Len(a) : Occurrences(a, a[i]) = Occurrences(b, a[i])

ClampedIndex(i, length) ==
  IF i < 0 THEN 0 ELSE IF i > length - 1 THEN length - 1 ELSE i

\* C6: the summary of a non-empty list of durations leaves the list sorted
\* ascending (same elements), and p50, p90, p95, p99 are the elements at
\* index floor(p * length) clamped to [0, length - 1]; max is the last one.
C6_PercentileIsFloorIndex ==
  [][(mode = "stress" /\ ~stats.computed /\ stats'.computed /\ Len(timings) > 0) =>
       LET sorted == timings'
           n == Len(sorted)
           at(pct) == sorted[ClampedIndex((n * pct) \div 100, n) + 1]
       IN /\ IsAscending(sorted)
          /\ SameElements(sorted, timings)
          /\ stats'.p50 = at(50)
          /\ stats'.p90 = at(90)
          /\ stats'.p95 = at(95)
          /\ stats'.p99 = at(99)
          /\ stats'.max = sorted[n]
          /\ (n * 99) \div 100 <= n - 1]_vars

\* C6 witness: a list of 21 durations, for which p90, p95 and the maximum
\* are three different elements.
C6_Witness ==
  /\ stats.computed
  /\ stats.count = 21
  /\ stats.p90 < stats.p95
  /\ stats.p95 < stats.max

\* C7 as stated: for [100, 200, 300, 400, 500] p50 is the element at sorted
\* index floor(0.5 * 5) - 1 = 1, that is 200.
C7_AsStated ==
  (mode = "stress" /\ stats.computed /\ timings = FixedVector) =>
    stats.p50 = timings[(((5 * 50) \div 100) - 1) + 1]

\* C7 amended: for [100, 200, 300, 400, 500] p50 is the element at sorted
\* index floor(0.5 * 5) = 2, that is 300.
C7_P50OfFixedVector ==
  (mode = "stress" /\ stats.computed /\ timings = FixedVector) =>
    /\ stats.p50 = timings[((5 * 50) \div 100) + 1]
    /\ stats.p50 = 300

\* C7 witness: the summary of the fixed vector has been computed.
C7_Witness ==
  /\ mode = "stress"
  /\ stats.computed
  /\ stats.count = 5
  /\ timings = FixedVector

ConfiguredFinite(raw) ==
  /\ raw.t = "string"
  /\ raw.s # << >>
  /\ NumberOf(raw.s).t = "number"

Exceeds(observed, raw) ==
  ConfiguredFinite(raw) /\ observed > NumberOf(raw.s).v

SloFailures == {"fail_max", "fail_p95", "fail_p99"}

\* C8: once the percentiles are computed, the run fails on a threshold iff
\* some threshold is configured as a finite number and the value it applies
\* to is strictly greater; the failure reported is that of the first such
\* threshold in the order max, p95, p99; with no threshold configured there
\* is no threshold failure.
C8_ThresholdFailureIffExceeded ==
  (mode = "stress" /\ stats.computed) =>
    LET overMax == Exceeds(stats.max, env.MYSTAPP_MAX_LOGIN_MS)
        overP95 == Exceeds(stats.p95, env.MYSTAPP_MAX_P95_LOGIN_MS)
        overP99 == Exceeds(stats.p99, env.MYSTAPP_MAX_P99_LOGIN_MS)
    IN /\ (outcome \in SloFailures) <=> (overMax \/ overP95 \/ overP99)
       /\ (outcome = "fail_max") <=> overMax
       /\ (outcome = "fail_p95") <=> (overP95 /\ ~overMax)
       /\ (outcome = "fail_p99") <=> (overP99 /\ ~overMax /\ ~overP95)
       /\ (\A name \in DOMAIN env : ~ConfiguredFinite(env[name])) =>
            outcome \notin SloFailures

\* C8 witness: the maximum equals its threshold (no failure on it) and the
\* run fails on the p95 threshold.
C8_Witness ==
  /\ mode = "stress"
  /\ stats.computed
  /\ ConfiguredFinite(env.MYSTAPP_MAX_LOGIN_MS)
  /\ stats.max = NumberOf(env.MYSTAPP_MAX_LOGIN_MS.s).v
  /\ outcome = "fail_p95"

\* The explicit list a configuration names: the names MYSTAPP_USERS was
\* written from when it is set (non-blank), otherwise the non-empty trimmed
\* entries of the local `users` array.
CsvInEffect ==
  credEnv.MYSTAPP_USERS.t = "string" /\ Trim(credEnv.MYSTAPP_USERS.s) # << >>

LocalNames ==
  IF localCfg.t = "object" /\ localCfg.users.t = "array"
    THEN SelectSeq([i \in 1..Len(localCfg.users.items) |->
                      Trim(localCfg.users.items[i])],
                   LAMBDA x : x # << >>)
    ELSE << >>

ExplicitList == IF CsvInEffect THEN csvNames ELSE LocalNames

\* The shared password: MYSTAPP_PASSWORD, else the local one, trimmed.
SharedPassword ==
  IF credEnv.MYSTAPP_PASSWORD.t = "string" THEN Trim(credEnv.MYSTAPP_PASSWORD.s)
  ELSE IF localCfg.t = "object" /\ localCfg.password.t = "string"
    THEN Trim(localCfg.password.s)
  ELSE << >>

IsCount(c) == c.t = "number" /\ c.v >= 0

\* C9: with an explicit list of k >= 1 names and a password, resolving
\* `count` users (0 <= count) returns the first `count` names in list order,
\* each paired with the password, when count <= k, and fails when k < count.
C9_ExplicitListPrefix ==
  (/\ users.t \in {"ok", "error"}
   /\ Len(ExplicitList) >= 1
   /\ SharedPassword # << >>
   /\ IsCount(count)) =>
    IF count.v <= Len(ExplicitList)
      THEN users = [t |-> "ok",
                    list |-> [i \in 1..count.v |->
                                [username |-> ExplicitList[i],
                                 password |-> SharedPassword]]]
      ELSE users = [t |-> "error", error |-> "list_too_short"]

\* C9 witness: MYSTAPP_USERS = "a,b,c", password pw, count 2 gives
\* [{a, pw}, {b, pw}].
C9_Witness ==
  /\ credEnv.MYSTAPP_USERS = Str(<<"a", ",", "b", ",", "c">>)
  /\ count = Num(2)
  /\ users = [t |-> "ok",
              list |-> <<[username |-> <<"a">>, password |-> <<"p", "w">>],
                         [username |-> <<"b">>, password |-> <<"p", "w">>]>>]

\* The single configured user: MYSTAPP_USER, else MYSTAPP_USERNAME, else the
\* local `user` (the first that is set), trimmed.
SingleUser ==
  IF credEnv.MYSTAPP_USER.t = "string" THEN Trim(credEnv.MYSTAPP_USER.s)
  ELSE IF credEnv.MYSTAPP_USERNAME.t = "string" THEN Trim(credEnv.MYSTAPP_USERNAME.s)
  ELSE IF localCfg.t = "object" /\ localCfg.user.t = "string"
    THEN Trim(localCfg.user.s)
  ELSE << >>

ReuseRequested ==
  /\ credEnv.MYSTAPP_REUSE_SINGLE_USER.t = "string"
  /\ Trim(credEnv.MYSTAPP_REUSE_SINGLE_USER.s) = <<"1">>

\* C10: with no explicit list, a single user and a password: count = 1 gives
\* that one credential; count # 1 without the reuse flag fails; count # 1
\* (0 <= count) with the flag gives `count` copies of the credential.
C10_SingleUserReuse ==
  (/\ users.t \in {"ok", "error"}
   /\ Len(ExplicitList) = 0
   /\ SingleUser # << >>
   /\ SharedPassword # << >>) =>
    LET credential == [username |-> SingleUser, password |-> SharedPassword] IN
    /\ count = Num(1) => users = [t |-> "ok", list |-> <<credential>>]
    /\ (count # Num(1) /\ ~ReuseRequested) =>
         users = [t |-> "error", error |-> "single_user_not_reusable"]
    /\ (count # Num(1) /\ ReuseRequested /\ IsCount(count)) =>
         /\ users.t = "ok"
         /\ Len(users.list) = count.v
         /\ \A i \in 1..Len(users.list) : users.list[i] = credential

\* C10 witness: one user, the reuse flag, count 3: three identical
\* credentials.
C10_Witness ==
  /\ count = Num(3)
  /\ ReuseRequested
  /\ Len(ExplicitList) = 0
  /\ users.t = "ok"
  /\ Len(users.list) = 3
  /\ users.list[1] = users.list[2]
  /\ users.list[2] = users.list[3]
  /\ users.list[1].username = <<"u", "1">>

\* The prefix users are generated from: MYSTAPP_USER_PREFIX, else the local
\* `userPrefix`, trimmed.
UserPrefix ==
  IF credEnv.MYSTAPP_USER_PREFIX.t = "string"
    THEN Trim(credEnv.MYSTAPP_USER_PREFIX.s)
  ELSE IF localCfg.t = "object" /\ localCfg.userPrefix.t = "string"
    THEN Trim(localCfg.userPrefix.s)
  ELSE << >>

UsernamesOf(list) == {list[i].username : i \in 1..Len(list)}

PasswordsOf(list) == {list[i].password : i \in 1..Len(list)}

\* The results each source can give, failures included.
FromExplicitList ==
  \/ users.t = "error" /\ users.error \in {"missing_password_for_users", "list_too_short"}
  \/ /\ users.t = "ok"
     /\ UsernamesOf(users.list) \subseteq {ExplicitList[i] : i \in 1..Len(ExplicitList)}
     /\ PasswordsOf(users.list) \subseteq {SharedPassword}

FromSingleUser ==
  \/ users.t = "error"
       /\ users.error \in {"missing_password_for_single_user", "single_user_not_reusable"}
  \/ /\ users.t = "ok"
     /\ UsernamesOf(users.list) \subseteq {SingleUser}
     /\ PasswordsOf(users.list) \subseteq {SharedPassword}

FromPrefix ==
  \/ users.t = "error" /\ users.error = "missing_credentials"
  \/ /\ users.t = "ok"
     /\ UserPrefix # << >>
     /\ \A i \in 1..Len(users.list) :
          /\ users.list[i].username = UserPrefix \o PadStart2(DecimalString(i))
          /\ users.list[i].password = SharedPassword

\* C11: the result of requireMystappUsers comes from exactly one source, the
\* first non-empty one in the order explicit list, single user, prefix: with
\* a name in the explicit list the result is a prefix of that list or one of
\* its two failures; else with a single user it is copies of that user or one
\* of its two failures; only with neither is the prefix (or the
\* missing-credentials failure) the result.
C11_FirstNonEmptySourceDecides ==
  users.t \in {"ok", "error"} =>
    IF Len(ExplicitList) >= 1 THEN FromExplicitList
    ELSE IF SingleUser # << >> THEN FromSingleUser
    ELSE FromPrefix

\* C11 witness: all three sources are set and the explicit list is shorter
\* than count: the call fails, it does not fall back to the single user or to
\* the prefix.
C11_Witness ==
  /\ Len(ExplicitList) = 2
  /\ SingleUser # << >>
  /\ UserPrefix # << >>
  /\ SharedPassword # << >>
  /\ ReuseRequested
  /\ count = Num(3)
  /\ users = [t |-> "error", error |-> "list_too_short"]

\* ------------------------------------------------------ mystappLogin claims
IsPrefix(a, b) == Len(a) <= Len(b) /\ SubSeq(b, 1, Len(a)) = a

\* The state of the login graph a completed step stands for.
StateOf(step) ==
  CASE step = "navigated" -> "Navigated"
    [] step = "already_authenticated" -> "AlreadyAuthenticated"
    [] step = "form_rendering" -> "FormRendering"
    [] step = "username_filled" -> "UsernameFilled"
    [] step = "password_filled" -> "FormFilled"
    [] step \in {"clicked", "pressed_enter"} -> "Submitted"
    [] step \in {"left_login_page", "left_login_timeout"} -> "LeftLoginPageCheck"
    [] OTHER -> "none"

StatesEntered ==
  LET all == [i \in 1..Len(trace) |-> StateOf(trace[i])]
  IN SelectSeq(all, LAMBDA s : s # "none")

EarlyPath == <<"Navigated", "AlreadyAuthenticated">>

FormPath ==
  <<"Navigated", "FormRendering", "UsernameFilled", "FormFilled", "Submitted",
    "LeftLoginPageCheck">>

\* C12: the steps a call of mystappLogin has completed are, at every moment,
\* an initial part of navigation, early return, or of navigation, render
\* wait, username fill, password fill, submit, left-login-page check (so the
\* password is not filled before the username, nothing is submitted before
\* the password is filled, no step is made twice), and a call that returned
\* has completed one of the two paths.
C12_FollowsStateGraph ==
  /\ IsPrefix(StatesEntered, EarlyPath) \/ IsPrefix(StatesEntered, FormPath)
  /\ lresult.t = "ok" =>
       \/ StatesEntered = EarlyPath
       \/ StatesEntered = FormPath /\ trace[Len(trace)] = "left_login_page"

\* C12 witness: a call that went through the form and returned.
C12_Witness ==
  /\ lresult.t = "ok"
  /\ StatesEntered = FormPath

\* The URLs of the login page: the login path at the end of the URL, or
\* followed by a query or a fragment.
OnLoginPage(u) ==
  u \in {<<"h", "/", "l">>, <<"h", "/", "l", "?", "n">>, <<"h", "/", "l", "#">>}

\* C13: when the URL read right after the navigation is not one of the login
\* page, the call only waits for the API metric and returns its metrics:
\* no field is resolved or filled, nothing is clicked or pressed, and the
\* left-login-page expectation is not run.
C13_EarlyReturnWhenNotOnLogin ==
  [][/\ (lpc = "goto" /\ lpc' # "goto" /\ ~OnLoginPage(url')) =>
          /\ lpc' = "awaitApiEarly"
          /\ trace' = <<"navigated">>
     /\ lpc = "awaitApiEarly" =>
          /\ lpc' \in {"awaitApiEarly", "returned"}
          /\ fields' = fields /\ fields'.username = Undefined /\ probe' = [field |-> "none"]
          /\ url' = url
          /\ lpc' = "awaitApiEarly" => trace' = trace /\ lresult'.t = "none"
          /\ lpc' = "returned" =>
               /\ lresult'.t = "ok"
               /\ trace' = <<"navigated", "already_authenticated">>]_vars

\* C13 witness: the page is at a URL that only starts like the login path and
\* the call has returned early.
C13_Witness ==
  /\ url = <<"h", "/", "l", "/", "r">>
  /\ lresult.t = "ok"
  /\ trace = <<"navigated", "already_authenticated">>

\* C14: a call returns an outcome only when the URL it read last (right
\* after the navigation, or during the 20 s after the submit) is not one of
\* the login page; when the URL read at the end of the 20 s still is, the
\* call throws and has no outcome.
C14_OutcomeOnlyOffLoginPage ==
  [][/\ lresult'.t = "ok" => ~OnLoginPage(url')
     /\ lresult'.t = "ok" /\ lresult.t # "ok" =>
          lpc \in {"awaitApiEarly", "awaitApi"}
     /\ lpc' = "awaitApi" /\ lpc # "awaitApi" => lpc = "leftLogin" /\ ~OnLoginPage(url')
     /\ (lpc = "leftLogin" /\ polls = MaxPolls /\ url' \in Urls /\ OnLoginPage(url')
           /\ <<url, lpc, polls, trace, lresult>>' # <<url, lpc, polls, trace, lresult>>) =>
          /\ lresult' = [t |-> "error", error |-> "expect(page).not.toHaveURL(loginRegex)"]
          /\ lpc' = "threw"]_vars

\* C14 witness: the page was still on the login page (with a query) at the
\* end of the wait and the call threw.
C14_Witness ==
  /\ url = <<"h", "/", "l", "?", "n">>
  /\ polls = MaxPolls
  /\ trace # << >> /\ trace[Len(trace)] = "left_login_timeout"
  /\ lresult.t = "error"

ApiRegexIsSet == loginEnv.MYSTAPP_LOGIN_API_URL_REGEX = Str(<<"/", "a">>)

AllAbsent(r) ==
  r.apiMs = Undefined /\ r.apiStatus = Undefined /\ r.apiUrl = Undefined

AllPresent(r) ==
  r.apiMs.t = "number" /\ r.apiStatus.t = "number" /\ r.apiUrl.t = "string"

\* C15: the end of the response wait, by a timeout or a failure, changes
\* nothing of the call and the call can still return; an outcome has totalMs,
\* and has apiMs, apiStatus and apiUrl all three when a response was
\* captured and none of them otherwise (wait failed, or no regex configured).
C15_ApiMetricAllOrNothing ==
  [][/\ (apiWait = "pending" /\ apiWait' = "failed") =>
          /\ <<lpc, lresult, trace, fields>>' = <<lpc, lresult, trace, fields>>
          /\ AllAbsent(metrics')
     /\ lresult'.t = "ok" =>
          /\ lresult'.totalMs.t = "number"
          /\ apiWait' # "pending"
          /\ apiWait' = "captured" => ApiRegexIsSet /\ AllPresent(lresult')
          /\ apiWait' \in {"failed", "none"} => AllAbsent(lresult')
          /\ (apiWait' = "none") = ~ApiRegexIsSet]_vars

\* C15 witness: a regex is configured, the wait failed, and the call went
\* through the form and returned an outcome without API fields.
C15_Witness ==
  /\ ApiRegexIsSet
  /\ apiWait = "failed"
  /\ lresult.t = "ok"
  /\ AllAbsent(lresult)
  /\ "password_filled" \in {trace[i] : i \in 1..Len(trace)}

VisibleAt(checks) == {k \in DOMAIN checks : checks[k] = "visible"}

\* C16: firstVisibleLocator returns the first element of the earliest
\* candidate whose check gave "visible" (a check that throws counts as not
\* visible) and nothing when there is none; when the three fields have been
\* resolved, a missing username makes the call throw the error naming the
\* username field and MYSTAPP_USERNAME_SELECTOR, and a missing password
\* (with a username) the one naming the password field and
\* MYSTAPP_PASSWORD_SELECTOR.
C16_FirstVisibleCandidate ==
  /\ probe.field # "none" =>
       IF VisibleAt(probe.checks) = {} THEN probe.result = Undefined
       ELSE \E k \in VisibleAt(probe.checks) :
              /\ \A j \in VisibleAt(probe.checks) : k <= j
              /\ probe.result = [t |-> "locator", of |-> probe.candidates[k], nth |-> 0]
  /\ probe.field = "submit" =>
       IF fields.username = Undefined
         THEN lresult = [t |-> "error", error |->
                "Could not find username/email field. Set MYSTAPP_USERNAME_SELECTOR to override."]
       ELSE IF fields.password = Undefined
         THEN lresult = [t |-> "error", error |->
                "Could not find password field. Set MYSTAPP_PASSWORD_SELECTOR to override."]
       ELSE lresult.t = "none"

\* C16 witness: the first submit candidate threw, the two after it were
\* visible and the second was returned; no password field had been found and
\* the call threw.
C16_Witness ==
  /\ probe.field = "submit"
  /\ Len(probe.candidates) = 3
  /\ probe.checks = <<"throws", "visible", "visible">>
  /\ probe.result = [t |-> "locator", of |-> probe.candidates[2], nth |-> 0]
  /\ fields.username # Undefined
  /\ fields.password = Undefined
  /\ lresult.t = "error"

OnePasswordInputNoOverride ==
  /\ fields.passwordInputsCount = 1
  /\ loginEnv.MYSTAPP_PASSWORD_SELECTOR \in {Undefined, Str(<<" ">>)}

Steps == {trace[i] : i \in 1..Len(trace)}

AfterFillingUsernameError ==
  [t |-> "error", error |->
     "Could not find password field after filling username. Set MYSTAPP_PASSWORD_SELECTOR to override."]

\* C17: with one password input counted and no password override, once the
\* username is filled the password field is looked for again: until the
\* inputs are counted again nothing else happens; with two or more inputs
\* the password is the second password input, taken right after the
\* username fill; with fewer the call throws the "after filling username"
\* error and neither fills a password nor submits.
C17_PasswordReResolvedAfterUsername ==
  /\ "password_reresolved" \in Steps =>
       \E i \in 1..(Len(trace) - 1) :
         trace[i] = "username_filled" /\ trace[i + 1] = "password_reresolved"
  /\ (OnePasswordInputNoOverride /\ "username_filled" \in Steps) =>
       IF fields.refreshedCount = Undefined
         THEN /\ lpc = "secondPassword"
              /\ trace[Len(trace)] = "username_filled"
       ELSE IF fields.refreshedCount.v >= 2
         THEN /\ fields.password = [t |-> "locator", of |-> "passwordInputs", nth |-> 1]
              /\ "password_reresolved" \in Steps
       ELSE /\ lresult = AfterFillingUsernameError
            /\ Steps \cap {"password_filled", "clicked", "pressed_enter"} = {}

\* C17 witness: one password input before the username fill and one after
\* it: the call threw and submitted nothing.
C17_Witness ==
  /\ OnePasswordInputNoOverride
  /\ fields.refreshedCount = Num(1)
  /\ lresult = AfterFillingUsernameError
  /\ trace = <<"navigated", "form_rendering", "username_filled">>

\* ------------------------------------------------------ the date filler
TagsOf(history) == [i \in 1..Len(history) |-> history[i].tag]

\* the attempt read the input back and the trimmed read-back is the value
ReadBackEqualsValue(a) == a.outcome = "read" /\ Trim(a.readBack) = dvalue

FollowingAttempt(i) == <<"keyboard", "js", "final">>[i]

\* C18: the attempts are made in the order fill, keyboard, js, each only
\* after the ones before it; an attempt whose trimmed read-back equals the
\* expected value is the last one made and the call has returned; an attempt
\* that threw, or read something else, is followed by the next attempt (by
\* the final read after the third); and a call that returned did so on a
\* read-back equal, once trimmed, to the expected value.
C18_AttemptsInOrderFirstMatchReturns ==
  /\ IsPrefix(TagsOf(attempts), <<"fill", "keyboard", "js", "final">>)
  /\ \A k \in 1..3 : dpc = <<"fill", "keyboard", "js">>[k] => Len(attempts) = k - 1
  /\ \A i \in 1..Len(attempts) :
       attempts[i].tag # "final" =>
         IF ReadBackEqualsValue(attempts[i])
           THEN /\ i = Len(attempts)
                /\ dpc = "returned"
                /\ dresult = [t |-> "ok"]
           ELSE \/ i < Len(attempts) /\ attempts[i + 1].tag = FollowingAttempt(i)
                \/ i = Len(attempts) /\ dpc = FollowingAttempt(i)
  /\ dresult.t = "ok" =>
       /\ attempts # << >>
       /\ attempts[Len(attempts)].tag # "final"
       /\ ReadBackEqualsValue(attempts[Len(attempts)])

\* C18 witness: the fill attempt threw, the keyboard attempt read back
\* something else, the js attempt read back the value between blanks and the
\* call returned.
C18_Witness ==
  /\ dresult = [t |-> "ok"]
  /\ dvalue = <<"2", "0", "2", "5", "-", "0", "2", "-", "0", "1">>
  /\ attempts =
       << [tag |-> "fill", outcome |-> "threw"],
          [tag |-> "keyboard", outcome |-> "read", readBack |-> <<"x">>],
          [tag |-> "js", outcome |-> "read",
           readBack |-> <<" ">> \o dvalue \o <<" ">>] >>

\* C19: when all three attempts have failed and the input could be read a
\* last time, the call throws the "Could not set date input" error, which
\* holds that final read-back (trimmed) and, for each of the three attempts,
\* the reason that attempt did not match.
C19_ErrorReportsEveryAttempt ==
  (dpc = "threw" /\ Len(attempts) = 4 /\ attempts[4].outcome = "read") =>
    /\ dresult.t = "error"
    /\ dresult.error.message = "Could not set date input"
    /\ dresult.error.value = dvalue
    /\ dresult.error.current = Trim(attempts[4].readBack)
    /\ \A k \in 1..3 :
         \E j \in 1..Len(dresult.error.attempts) :
           dresult.error.attempts[j].tag = AttemptTags[k]

\* '02/01/2025'
Feb1OrJan2 == <<"0", "2", "/", "0", "1", "/", "2", "0", "2", "5">>

\* 'a/b/...' written as 'b/a/...'
FirstTwoSwapped(raw) ==
  LET parts == Split(raw, "/") IN
  IF Len(parts) < 2 THEN raw
  ELSE Join(<<parts[2], parts[1]>> \o SubSeq(parts, 3, Len(parts)), <<"/">>)

\* both calls throw the same kind of error, or both return the same string
SameIsoDate(l, r) ==
  IF l.t = "error" THEN r.t = "error" /\ r.error.message = l.error.message
  ELSE r = l

\* iso is YYYY-MM-DD with the numbers the three parts are written with
IsIsoDateOf(iso, day, month, year) ==
  /\ Len(iso) = 10
  /\ iso[5] = "-" /\ iso[8] = "-"
  /\ \A i \in (1..10) \ {5, 8} : iso[i] \in Digits
  /\ SubSeq(iso, 1, 4) = Trim(year)
  /\ DecimalValue(SubSeq(iso, 6, 7), 0) = DecimalValue(Trim(month), 0)
  /\ DecimalValue(SubSeq(iso, 9, 10), 0) = DecimalValue(Trim(day), 0)

GridEnded == grid.pc \in {"returned", "threw", "secondRow"}

LastObs == grid.obs[Len(grid.obs)]

\* the indicator was visible at a poll and two rows or more were counted
\* at a later poll or at the count after the loop
RowsAfterEmpty ==
  \E i \in 1..Len(grid.obs), j \in 1..Len(grid.obs) :
    /\ i < j
    /\ grid.obs[i].emptyVisible
    /\ grid.obs[j].rows >= 2

DataReady == grid.result.t = "ok" /\ grid.result.status = "data"

\* a poll that did not count two rows leaves the loop running until the
\* deadline, whatever it saw of the indicator; a poll that counted two rows
\* is the last poll
PollsGoOn ==
  /\ (grid.obs # << >> /\ LastObs.at = "poll" /\ LastObs.rows < 2) =>
       (grid.pc = "poll" \/ (grid.pc = "recount" /\ grid.deadlinePassed))
  /\ \A j \in 1..Len(grid.obs) :
       (grid.obs[j].at = "poll" /\ grid.obs[j].rows >= 2) =>
         /\ \A k \in (j + 1)..Len(grid.obs) : grid.obs[k].at = "recount"
         /\ ~grid.deadlinePassed
         /\ grid.pc # "poll"

IndicatorSeen ==
  \E i \in 1..Len(grid.obs) : grid.obs[i].at = "poll" /\ grid.obs[i].emptyVisible

\* C22: every grid wait ends, after MaxGridPolls rounds at most (the rounds
\* of 250 ms that fit into 45 s); sawEmpty, once true, stays true; and a wait
\* that ends on a final count below 2 is 'confirmed empty' if the indicator
\* was visible at one poll at least and the ambiguous timeout if it never
\* was.
C22_WaitEndsEmptyIffIndicatorSeen ==
  /\ <>GridEnded
  /\ [](grid.polls <= MaxGridPolls)
  /\ [][grid.sawEmpty => grid'.sawEmpty]_vars
  /\ []((GridEnded /\ LastObs.rows < 2) =>
          /\ grid.result.status = IF IndicatorSeen THEN "empty" ELSE "timeout"
          /\ grid.sawEmpty <=> IndicatorSeen)

\* C22 witness: the indicator was visible at the first poll only, the
\* deadline passed after the last round and the final count was 1: empty.
C22_Witness ==
  /\ grid.routine = "clickSecondRowRecordAndOpenPopup"
  /\ grid.polls = MaxGridPolls
  /\ grid.obs[1].emptyVisible
  /\ \A i \in 2..Len(grid.obs) : ~grid.obs[i].emptyVisible
  /\ grid.deadlinePassed
  /\ GridEnded
  /\ LastObs.rows = 1
  /\ grid.result.status = "empty"

\* the wait ended on a final count below 2 without the indicator ever seen
AmbiguousTimeout == GridEnded /\ LastObs.rows < 2 /\ ~grid.sawEmpty

\* the wait ended on a final count below 2 with the indicator seen
ConfirmedEmpty == GridEnded /\ LastObs.rows < 2 /\ grid.sawEmpty

\* C23: in each of the four routines a wait that ends in the ambiguous
\* timeout is an error and the test that called the routine fails; a
\* confirmed-empty grid is an error too unless allowEmpty is set, and then
\* the routine returns 'not opened / not clicked' without going on to the
\* second row and the test is skipped (clickSecondRowInvoice has no test
\* calling it).
C23_TimeoutIsFatalEmptyIsErrorOrSkip ==
  /\ AmbiguousTimeout =>
       /\ grid.result.t = "error"
       /\ grid.caller = "fails"
  /\ ConfirmedEmpty =>
       IF grid.allowEmpty
         THEN /\ grid.result = [t |-> "ok", status |-> "empty", done |-> FALSE]
              /\ grid.pc = "returned"
              /\ grid.caller \in {"skips", "no_caller"}
         ELSE /\ grid.result.t = "error"
              /\ grid.caller = "fails"

\* ----------------------------------------------------------- the popup race
\* C24: a call that clicked the cell and returned reports 'opened'
\* ('clicked'), with the popup page whenever the page emitted 'popup'
\* between the start of the race and the end of the 5 s of the second wait,
\* and without a popup when none was emitted.
C24_PopupInWindowIsReturned ==
  (popupRace.pc = "returned" /\ popupRace.clicks >= 1) =>
    /\ popupRace.result.done
    /\ popupRace.result.popup <=> popupRace.fired # "no"

\* ---- C25
HeadersStored == redaction.pc = "headersStored"

\* the stored map has no header whose lower-cased name is in `names`, and
\* has every other header of the message under its name with its value
StoredOmitsExactly(names) ==
  /\ DOMAIN redaction.stored \subseteq DOMAIN redaction.headers
  /\ \A n \in DOMAIN redaction.headers :
       IF ToLowerCase(n) \in names
       THEN n \notin DOMAIN redaction.stored
       ELSE n \in DOMAIN redaction.stored
            /\ redaction.stored[n] = redaction.headers[n]

\* C25 as stated: every captured header map omits, in any letter case,
\* authorization, cookie, set-cookie, proxy-authorization and api-key, and
\* keeps every other header with its value.
C25_OmitsApiKeyHeader ==
  HeadersStored =>
    StoredOmitsExactly({hAuthorization, hCookie, hSetCookie,
                        hProxyAuthorization, hApiKey})

\* C25: every captured header map omits, in any letter case, authorization,
\* cookie, set-cookie, proxy-authorization and x-api-key, and keeps every
\* other header (a header named api-key among them) with its value.
C25_OmitsXApiKeyHeader ==
  HeadersStored =>
    StoredOmitsExactly({hAuthorization, hCookie, hSetCookie,
                        hProxyAuthorization, hXApiKey})

\* a message carrying X-API-Key in upper case and a header that is kept
C25_Witness ==
  /\ HeadersStored
  /\ \E n \in DOMAIN redaction.headers :
       n # hXApiKey /\ ToLowerCase(n) = hXApiKey
  /\ DOMAIN redaction.stored # {}

\* ---- C26
BodyStored == redaction.pc = "bodyStored"

\* every entry of every object inside v, with the path of keys and array
\* indexes that leads to the object holding it
RECURSIVE Fields(_, _)
Fields(v, path) ==
  IF v.t = "object"
  THEN UNION { {[path |-> path, k |-> v.entries[i].k, v |-> v.entries[i].v]}
               \cup Fields(v.entries[i].v,
                           Append(path, [k |-> v.entries[i].k, i |-> 0]))
               : i \in 1..Len(v.entries) }
  ELSE IF v.t = "array"
  THEN UNION { Fields(v.items[i], Append(path, [k |-> <<>>, i |-> i]))
               : i \in 1..Len(v.items) }
  ELSE {}

\* v and every value inside it
RECURSIVE Values(_)
Values(v) ==
  {v} \cup
  IF v.t = "object" THEN UNION { Values(v.entries[i].v) : i \in 1..Len(v.entries) }
  ELSE IF v.t = "array" THEN UNION { Values(v.items[i]) : i \in 1..Len(v.items) }
  ELSE {}

SensitiveFields == { f \in Fields(redaction.body, <<>>) : KeyMatches(f.k) }

ShownRedacted(f) ==
  \E g \in Fields(redaction.stored, <<>>) :
    g.path = f.path /\ g.k = f.k /\ g.v = Redacted

KeyShown(f) ==
  \E g \in Fields(redaction.stored, <<>>) : g.path = f.path /\ g.k = f.k

\* the object holding f is at most MaxJsonDepth levels down, lies within the
\* first MaxArrayItems items of every array above it and below no key that
\* is itself redacted
WithinLimits(f) ==
  /\ Len(f.path) <= MaxJsonDepth
  /\ \A j \in 1..Len(f.path) :
       /\ f.path[j].i <= MaxArrayItems
       /\ f.path[j].i = 0 => ~KeyMatches(f.path[j].k)

EntriesNumberedInOrder ==
  \A i \in 1..Len(netlog.entries) :
    /\ netlog.entries[i].id = i
    /\ netlog.entries[i].resourceType \in {"xhr", "fetch"}

\* C27: entries are created by the request events of included requests with
\* ids 1, 2, 3, ... in request order, and once stop() has returned no entry
\* is created or modified any more: the file written by stop() equals the
\* entries as they are from then on.
C27_FileEqualsEntriesAfterStop ==
  netlog.pc # "unused" =>
    /\ EntriesNumberedInOrder
    /\ netlog.stop = "returned" =>
         /\ netlog.file.written
         /\ netlog.file.content = netlog.entries

\* ---- C28
\* C28: in a run of the invoices test that installed the capture, stop() is
\* called at most once, exactly once by the time the test has left its try
\* block by passing, by a thrown failure or by the skip for missing data,
\* and from that call on no listener is attached to the page.
C28_StopOnceOnEveryExit ==
  (netlog.pc # "unused" /\ netlog.installed) =>
    /\ netlog.stopCalls <= 1
    /\ netlog.pc \in {"stopping", "done"} =>
         /\ netlog.exit \in {"pass", "fail", "skip"}
         /\ netlog.stopCalls = 1
         /\ netlog.listeners = {}
    /\ netlog.pc \in {"try", "finally"} =>
         netlog.stopCalls = 0 /\ netlog.listeners = Listeners

\* the test was skipped for missing data and the capture was stopped
C28_Witness ==
  /\ netlog.pc = "done"
  /\ netlog.installed
  /\ netlog.exit = "skip"
  /\ netlog.stop = "returned"
  /\ netlog.stopCalls = 1
  /\ Len(netlog.entries) > 0

\* ---- C29
PerfExited == perf.pc = "exited"
TimingPaths == { p \in Paths : perf.dir[p] \in {"valid", "malformed", "unreadable"} }
ExitedWithoutReport == perf.exitCode # 0 /\ ~perf.report.written

\* the report has one row for every timings.json that parses, in path order
OneRowPerParsedFile ==
  /\ \A p \in Paths :
       Cardinality({j \in 1..Len(perf.report.rows) : perf.report.rows[j] = p})
         = IF perf.dir[p] = "valid" THEN 1 ELSE 0
  /\ \A j \in 1..(Len(perf.report.rows) - 1) :
       perf.report.rows[j] < perf.report.rows[j + 1]

\* C29 as stated: the aggregator exits non-zero without a report if and only
\* if no timings.json was found; otherwise the report has exactly one row
\* for every file that parses and none for a file that does not.
C29_NoReportIffNoFiles ==
  PerfExited =>
    /\ ExitedWithoutReport <=> TimingPaths = {}
    /\ TimingPaths # {} => OneRowPerParsedFile

\* C29: the aggregator ends in one of two ways.  It exits non-zero without a
\* report if and only if no timings.json was found, one of those found could
\* not be read, or the report could not be written; otherwise it exits zero
\* and the report has exactly one row for every file that parses, none for a
\* file that does not parse.
C29_NoReportIffNoFilesOrIoError ==
  PerfExited =>
    /\ ExitedWithoutReport \/ (perf.exitCode = 0 /\ perf.report.written)
    /\ ExitedWithoutReport =>
         \/ TimingPaths = {}
         \/ \E p \in Paths : perf.dir[p] = "unreadable"
         \/ perf.pc = "exited" /\ perf.i > Len(perf.timingFiles)
    /\ (TimingPaths = {} \/ \E p \in Paths : perf.dir[p] = "unreadable")
         => ExitedWithoutReport
    /\ perf.report.written => OneRowPerParsedFile

\* a malformed file between two files that parse, walked in descending order
C29_Witness ==
  /\ PerfExited
  /\ perf.report.written
  /\ ~perf.ascending
  /\ \E p \in Paths : perf.dir[p] = "malformed"
  /\ Len(perf.report.rows) = 2

\* ---- C30
KeysOf(record) == [j \in 1..Len(record) |-> record[j].label]

\* C30: the timing record holds keys of completed steps only, in step order
\* without a gap; a step that throws or skips ends the scenario with no later
\* key and no file; a timings file that was written holds all five keys.
C30_FileHoldsAllFiveKeys ==
  scenario.pc # "unused" =>
    /\ Len(scenario.timings) <= Len(StepLabels)
    /\ KeysOf(scenario.timings) = SubSeq(StepLabels, 1, Len(scenario.timings))
    /\ \A j \in 1..Len(scenario.timings) :
         scenario.timings[j].label \in scenario.completed
    /\ scenario.exit \in {"fail", "skip"} => ~scenario.file.written
    /\ scenario.file.written =>
         /\ KeysOf(scenario.file.content) = StepLabels
         /\ scenario.file.content = scenario.timings

\* a written file of a run in which the grid wait ended by its deadline
C30_Witness ==
  /\ scenario.pc = "done"
  /\ scenario.exit = "pass"
  /\ scenario.file.written
  /\ Len(scenario.file.content) = 5
  /\ scenario.results[4] = "timeout"

\* ---- C31
UsersResolved == users.t # "none" \/ outcome # "running"
HasConfig == hasMystappConfig(credEnv, localCfg)
ConfigError == requireMystappUsers(count, credEnv, localCfg).t = "error"

SummaryPercentiles == {50, 90, 95, 99}

StressValue(pct) ==
  CASE pct = 50 -> stats.p50 [] pct = 90 -> stats.p90
    [] pct = 95 -> stats.p95 [] pct = 99 -> stats.p99

\* 1-based position in the sorted list of the element a rule selected
PositionOf(value) == CHOOSE i \in 1..Len(timings) : timings[i] = value

Distinct(list) == \A i, j \in 1..Len(list) : i # j => list[i] # list[j]

\* C32: on the same non-empty list and the same percentile, the stress rule
\* and the aggregator rule select the same element of the sorted list when
\* p * length is not an integer, and the stress rule selects the element one
\* position higher when it is; they never differ by more than one position.
C32_RulesDifferByAtMostOne ==
  (mode = "stress" /\ stats.computed /\ Len(timings) > 0) =>
    \A pct \in SummaryPercentiles :
      LET stress == StressValue(pct)
          offline == percentile(timings, pct).v
      IN /\ (Len(timings) * pct) % 100 # 0 => stress = offline
         /\ Distinct(timings) =>
              /\ (Len(timings) * pct) % 100 # 0 =>
                   PositionOf(stress) = PositionOf(offline)
              /\ (Len(timings) * pct) % 100 = 0 =>
                   PositionOf(stress) = PositionOf(offline) + 1

\* 20 distinct durations: 0.95 * 20 is an integer and 0.99 * 20 is not
C32_Witness ==
  /\ mode = "stress"
  /\ stats.computed
  /\ Len(timings) = 20
  /\ Distinct(timings)
  /\ stats.p95 = timings[20]
  /\ percentile(timings, 95) = Num(timings[19])
  /\ percentile(timings, 99) = Num(stats.p99)

\* ---- C33
AtAwaitApi == lpc \in {"awaitApiEarly", "awaitApi"}

\* C33: once the URL check has passed (the early return for an authenticated
\* user, or the assertion that the login page was left) mystappLogin can
\* return at once, whether or not the optional response wait has settled.
C33_ReturnDoesNotWaitForApi ==
  AtAwaitApi => ENABLED LoginReturnsMetrics

\* ---- C34
UsernameWasFilled == \E i \in 1..Len(trace) : trace[i] = "username_filled"

NoFieldOverride ==
  /\ ~OverrideSet(loginEnv.MYSTAPP_USERNAME_SELECTOR)
  /\ ~OverrideSet(loginEnv.MYSTAPP_PASSWORD_SELECTOR)

\* C34: without selector overrides the username is typed into a
\* password-typed input only when the form has two password-typed inputs; on
\* a form with exactly one it goes to the text field.
C34_UsernameOnlyInFirstOfTwoPasswordInputs ==
  (NoFieldOverride /\ UsernameWasFilled
     /\ fields.username.of = "passwordInputs.nth(0)") =>
    fields.passwordInputsCount >= 2


\* ---- C35
\* The page never left about:blank: page.goto was rejected (or timed out) and
\* the rejection was swallowed.
NavigationFailed == lpc \notin {"unused", "idle", "goto"} /\ url = <<"b">>

\* C35: a call whose initial navigation failed does not return metrics (the
\* value of a successful login).
C35_NoSuccessAfterFailedNavigation ==
  NavigationFailed => lresult.t # "ok"


\* ---- C36
TextStored == redaction.pc = "textStored"

\* the values of the password, token and secret fields of the body sent
SecretsSent ==
  IF redaction.sent.kind = "json"
  THEN { f.v.s : f \in { g \in Fields(redaction.sent.value, << >>) :
                           KeyMatches(g.k) /\ g.v.t = "string" } }
  ELSE { redaction.sent.pairs[i].v :
           i \in { j \in 1..Len(redaction.sent.pairs) :
                     KeyMatches(redaction.sent.pairs[j].k) } }

StoredInClear(s) ==
  CASE redaction.stored.as = "json" -> JStr(s) \in Values(redaction.stored.value)
    [] redaction.stored.as = "text" -> HasSubstring(redaction.stored.text, CharsOf(s))
    [] OTHER -> FALSE

\* C36: no stored request or response body holds in clear the value of a
\* password, token or secret field of the body sent, whether the body was
\* stored as parsed JSON or as (clipped) text.
C36_NoSecretStoredInClear ==
  TextStored => \A s \in SecretsSent : ~StoredInClear(s)


\* ---- C37
SelectorOf(field) ==
  CASE field = "username" -> loginEnv.MYSTAPP_USERNAME_SELECTOR
    [] field = "password" -> loginEnv.MYSTAPP_PASSWORD_SELECTOR
    [] field = "submit" -> loginEnv.MYSTAPP_SUBMIT_SELECTOR

\* C37: a field whose selector override is set is resolved to the element of
\* that selector or not at all, never to one of the heuristic candidates.
C37_OverrideIsTheOnlyCandidate ==
  lpc # "unused" =>
    \A field \in {"username", "password", "submit"} :
      (OverrideSet(SelectorOf(field)) /\ fields[field] # Undefined) =>
        fields[field].of = "env"


\* ---- C38
\* The service vehicles filler on the input and the element responses of the
\* invoices call.
SvResult ==
  svFillDateInput(inputType, rawDate, mystappDateFormat(dateEnv), attempts)

BothFillersEnded == dpc \in {"returned", "threw"} /\ SvResult # Pending

\* C38: on the same input and the same element responses the two date fillers
\* both return or both fail.
C38_DateFillersAgree ==
  BothFillersEnded => ((dresult.t = "ok") <=> (SvResult.t = "ok"))


\* ---- C39
\* The test body has ended: it returned, or an expect or the awaited
\* Promise.all threw.
RunEnded == outcome \notin {"running", "skipped"}

\* C39: a worker that has claimed an index and not yet opened its context, or
\* has left its loop, holds no context, and no context is open once the run
\* has ended, whether the logins returned or threw.
C39_ContextsClosedOnEveryPath ==
  phase \in {"pool", "done"} =>
    /\ \A w \in Workers : pc[w] \in {"newContext", "returned"} => ctxOf[w] = 0
    /\ RunEnded => openCtx = {}


\* ---- C40
\* C40: the click of the catch block is started only after the click of the
\* race has failed, and the two clicks never both succeed.
C40_FallbackClickOnlyAfterFailedClick ==
  popupRace.pc # "unused" =>
    /\ popupRace.k2 # "none" => popupRace.k1 = "rejected"
    /\ ~(popupRace.k1 = "resolved" /\ popupRace.k2 = "resolved")

====
